---- MODULE Spec2Model ----
(***************************************************************************)
(* NosCode server: the auto-fix endpoint (POST /api/ai/auto-fix), the      *)
(* FILE: block grammar it parses completion text with, and the content     *)
(* store calls it makes.                                                   *)
(*                                                                         *)
(* Text is modelled as a sequence of tokens.  "SP" is a blank, "NL" a line *)
(* break, "FENCE" a ``` code fence, "Q" a quote character, "FILE:" and     *)
(* "EXPLANATION:" the two markers (also in lower case, the expressions are *)
(* case-insensitive); every other token is a run of ordinary characters.   *)
(* A file path is such a token sequence too: <<"app", ".py">> is app.py.   *)
(***************************************************************************)
EXTENDS Naturals, Integers, Sequences, FiniteSets, TLC

VARIABLES
    pc,            \* where the handler stands
    project,       \* req.body.project ("" when absent)
    runCommand,    \* req.body.runCommand (<<>> when absent)
    files,         \* content store: path -> content of the project's files
    projectFiles,  \* const projectFiles
    command,       \* let command
    attempt,       \* loop variable
    fixes,         \* const fixes = []
    execResult,    \* (error, stdout, stderr) the exec callback was last called with
    output,        \* const output (resolved value of the exec promise)
    fixPrompt,     \* const fixPrompt, the argument of callHF
    aiResponse,    \* const aiResponse
    matchIdx,      \* how many matches fileRegex.exec has handed out, plus one
    fixedFiles,    \* const fixedFiles
    response,      \* what res.json(...) sent
    inflight,      \* calls awaited and not yet settled
    execCalls,     \* number of exec(command) calls made
    hfCalls,       \* number of callHF calls made
    writeCalls,    \* number of db.writeFile calls made
    writeFails,    \* number of db.writeFile calls that threw
    \* the terminal endpoints
    children,          \* the child processes exec has made, in the order of the requests
    runningProcesses,  \* const runningProcesses = new Map(): entries in insertion order
    previewServers,    \* const previewServers = new Map(): entries in insertion order
    previewResponse,   \* the last answer of POST /api/terminal/host or /stop
    kills,             \* the requests of POST /api/terminal/kill
    crashed,           \* an exception no handler caught has ended the server process
    \* the chat endpoint
    cpc,               \* where the handler of POST /api/ai/chat stands
    chatReq,           \* req.body of the chat turn
    chatHistory,       \* chat_history rows of the project, oldest first
    chatResponse,      \* what res.json(...) sent for the chat turn
    chatCalls,         \* calls the chat turn has made, in order
    chatCtx,           \* let contextInfo
    chatAi,            \* const aiResponse of the chat turn
    client,            \* API.chat of the page (src/script.js): where it stands, the
                       \* files it has still to send, how its sends went, what it returned
    \* the file endpoint
    writeReqs          \* the requests of POST /api/file/:project, one record each

autoVars == <<pc, project, runCommand, files, projectFiles, command, attempt, fixes,
              execResult, output, fixPrompt, aiResponse, matchIdx, fixedFiles, response,
              inflight, execCalls, hfCalls, writeCalls, writeFails>>

termVars == <<children, runningProcesses, previewServers, previewResponse, kills,
              crashed>>

\* the variables of the handler of POST /api/ai/chat
handlerVars == <<cpc, chatReq, chatHistory, chatResponse, chatCalls, chatCtx, chatAi>>

chatVars == <<handlerVars, client>>

\* the variables of the auto-fix handler but the content store
autoButFiles == <<pc, project, runCommand, projectFiles, command, attempt, fixes,
                  execResult, output, fixPrompt, aiResponse, matchIdx, fixedFiles, response,
                  inflight, execCalls, hfCalls, writeCalls, writeFails>>

vars == <<autoVars, termVars, chatVars, writeReqs>>

(***************************************************************************)
(* Bounds of the model.                                                    *)
(***************************************************************************)
MaxFiles == 2           \* files a project holds when the request arrives
MaxWriteFailures == 1   \* db.writeFile calls that throw in one execution
MaxRuns == 2            \* requests of POST /api/terminal/run
MaxKills == 1           \* requests of POST /api/terminal/kill
MaxBlocks == 2         \* FILE: blocks in a reply built from BlockShapes
MaxWriters == 2         \* concurrent requests of POST /api/file/:project
BigFiles == 50          \* files of a large project
BigChars == 10000       \* characters of a large file

(***************************************************************************)
(* Program constants.                                                      *)
(***************************************************************************)
maxAttempts == 5
PromptFiles == 10
PromptChars == 3000
EchoChars == 500
RunTimeout == 15000     \* timeout of the exec call of the auto-fix loop
CliTimeout == 30000     \* timeout of the exec call of a regular command
SettleWindow == 2000    \* delay of the timer of a long-running command
ForeignPid == 9         \* a pid that names no child of this server

(***************************************************************************)
(* Token classes.                                                          *)
(***************************************************************************)
WS == {"SP", "NL"}
WordTok ==
    {"w", "v", "a", "app", "m", "server", "Main", "X", "py", "foo", "hello", "the", "file",
     "fix", "error", "create", "Create", "delete", "show", "FILE", "EXPLANATION",
     "explanation"}
FileMarker == {"FILE:", "file:"}
ExplMarker == {"EXPLANATION:", "explanation:"}

Min(S) == CHOOSE x \in S : \A y \in S : x <= y

RECURSIVE SkipWhile(_, _, _)
SkipWhile(t, i, S) ==
    IF i <= Len(t) /\ t[i] \in S THEN SkipWhile(t, i + 1, S) ELSE i

RECURSIVE SkipUntil(_, _, _)
SkipUntil(t, i, S) ==
    IF i <= Len(t) /\ t[i] \notin S THEN SkipUntil(t, i + 1, S) ELSE i

HasNL(t, a, b) == \E q \in a..(b - 1) : t[q] = "NL"

LastNL(t, a, b) ==
    CHOOSE q \in a..(b - 1) : t[q] = "NL" /\ \A r \in (q + 1)..(b - 1) : t[r] # "NL"

\* String.prototype.trim
RECURSIVE TrimEnd(_)
TrimEnd(s) ==
    IF s # <<>> /\ s[Len(s)] \in WS THEN TrimEnd(SubSeq(s, 1, Len(s) - 1)) ELSE s

Trim(s) == TrimEnd(SubSeq(s, SkipWhile(s, 1, WS), Len(s)))

\* .replace(/^["']|["']$/g, '')
StripQuotes(s) ==
    LET a == IF s # <<>> /\ s[1] = "Q" THEN Tail(s) ELSE s
    IN  IF a # <<>> /\ a[Len(a)] = "Q" THEN SubSeq(a, 1, Len(a) - 1) ELSE a

\* String.prototype.substring(0, n)
Substring(s, n) == SubSeq(s, 1, IF Len(s) < n THEN Len(s) ELSE n)

(***************************************************************************)
(* /FILE:\s*([^\n`]+)\s*\n\s*```[\w]*\s*\n([\s\S]*?)```/gi                  *)
(* TryMatch: the expression from the point where group 1 starts at p.      *)
(* Group 1 takes every token up to the next line break or fence; between   *)
(* it and the fence there is white space with a line break in it; after    *)
(* the fence come word tokens, white space up to its last line break, and  *)
(* group 2 runs to the next fence.                                         *)
(***************************************************************************)
NoMatch == [ok |-> FALSE]

TryMatch(t, p) ==
    LET k == SkipUntil(t, p, {"NL", "FENCE"})
        m == SkipWhile(t, k, WS)
        n == SkipWhile(t, m + 1, WordTok)
        r == SkipWhile(t, n, WS)
        c == LastNL(t, n, r) + 1
        e == SkipUntil(t, c, {"FENCE"})
    IN  IF /\ p <= Len(t)
           /\ t[p] \notin {"NL", "FENCE"}
           /\ HasNL(t, k, m)
           /\ m <= Len(t)
           /\ t[m] = "FENCE"
           /\ HasNL(t, n, r)
           /\ e <= Len(t)
        THEN [ok |-> TRUE, path |-> SubSeq(t, p, k - 1),
              content |-> SubSeq(t, c, e - 1), end |-> e + 1]
        ELSE NoMatch

\* the greedy \s* after FILE: gives white space back one token at a time
RECURSIVE FirstStart(_, _, _)
FirstStart(t, lo, p) ==
    IF p < lo THEN NoMatch
    ELSE LET r == TryMatch(t, p)
         IN  IF r.ok THEN r ELSE FirstStart(t, lo, p - 1)

MatchAt(t, i) ==
    IF t[i] \in FileMarker
    THEN FirstStart(t, i + 1, SkipWhile(t, i + 1, WS))
    ELSE NoMatch

\* the successive results of fileRegex.exec(text), lastIndex starting at i
RECURSIVE FileRegexExec(_, _)
FileRegexExec(t, i) ==
    IF i > Len(t) THEN <<>>
    ELSE LET r == MatchAt(t, i)
         IN  IF r.ok THEN <<r>> \o FileRegexExec(t, r.end)
             ELSE FileRegexExec(t, i + 1)

FileMatches(t) == FileRegexExec(t, 1)

\* mutant: the quotes around a path are kept
EditOfKeepsQuotes(mt) == [filepath |-> Trim(mt.path), content |-> Trim(mt.content)]

\* const filepath = match[1].trim().replace(...); const content = match[2].trim()
EditOf(mt) == [filepath |-> StripQuotes(Trim(mt.path)), content |-> Trim(mt.content)]

\* aiResponse.match(/EXPLANATION:\s*([\s\S]*?)(?=FILE:|$)/i), group 1 trimmed
ExplanationOf(t) ==
    LET S == {i \in 1..Len(t) : t[i] \in ExplMarker}
    IN  IF S = {} THEN <<>>
        ELSE LET s == SkipWhile(t, Min(S) + 1, WS)
                 e == SkipUntil(t, s, FileMarker)
             IN  Trim(SubSeq(t, s, e - 1))

(***************************************************************************)
(* File names.                                                             *)
(***************************************************************************)
\* the names a project may hold, in the order ORDER BY filepath returns them
FileUniverse ==
    << <<"Main", ".java">>, <<"X", ".java">>, <<"a", ".py">>, <<"a", ".txt">>,
       <<"app", ".py">>, <<"m", ".go">>, <<"requirements", ".txt">>, <<"server", ".js">> >>

EndsWith(f, ext) == f # <<>> /\ f[Len(f)] = ext
Includes(f, tok) == \E i \in 1..Len(f) : f[i] = tok
Includes2(f, a, b) == \E i \in 1..(Len(f) - 1) : f[i] = a /\ f[i + 1] = b

\* Array.prototype.some / find
Some(s, P(_)) == \E i \in 1..Len(s) : P(s[i])
Found(s, P(_)) == Some(s, P)
Find(s, P(_)) == s[Min({i \in 1..Len(s) : P(s[i])})]

\* mainFile.replace('.java', ''): the first occurrence only
RemoveFirst(f, tok) ==
    IF ~Includes(f, tok) THEN f
    ELSE LET i == Min({j \in 1..Len(f) : f[j] = tok})
         IN  SubSeq(f, 1, i - 1) \o SubSeq(f, i + 1, Len(f))

\* SELECT filepath FROM files WHERE project_id = $1 ORDER BY filepath
getAllProjectFiles(store) ==
    SelectSeq(FileUniverse, LAMBDA f : f \in DOMAIN store)

(***************************************************************************)
(* Determine run command if not provided (lines 172-186).  <<>> stands for *)
(* a command that is undefined or empty: both are falsy.                   *)
(***************************************************************************)
IsPy(f) == EndsWith(f, ".py")
IsGo(f) == EndsWith(f, ".go")
IsServerJs(f) == EndsWith(f, ".js") /\ Includes(f, "server")
IsJava(f) == EndsWith(f, ".java")
IsMainPy(f) == Includes2(f, "main", ".py") \/ Includes2(f, "app", ".py")
IsMainJava(f) == Includes2(f, "Main", ".java")

PyCommand(pf) ==
    <<"py", "SP">> \o (IF Found(pf, IsMainPy) THEN Find(pf, IsMainPy) ELSE Find(pf, IsPy))

GoCommand == <<"go", "SP", "run", "SP", ".">>

NodeCommand == <<"node", "SP", "server", ".js">>

JavaCommand(pf) ==
    IF Found(pf, IsMainJava)
    THEN LET mainFile == Find(pf, IsMainJava)
         IN  <<"javac", "SP">> \o mainFile \o <<"SP", "&&", "SP", "java", "SP">>
                \o RemoveFirst(mainFile, ".java")
    ELSE <<"javac", "SP", "*", ".java", "SP", "&&", "SP", "java", "SP", "Main">>

\* mutant: a default command when no rule matches
DetermineCommandDefault(rc, pf) ==
    IF rc # <<>> THEN rc
    ELSE IF Some(pf, IsPy) THEN PyCommand(pf)
    ELSE IF Some(pf, IsGo) THEN GoCommand
    ELSE IF Some(pf, IsServerJs) THEN NodeCommand
    ELSE IF Some(pf, IsJava) THEN JavaCommand(pf)
    ELSE NodeCommand

\* mutant: the Go rule tried before the Python rule
DetermineCommandGoFirst(rc, pf) ==
    IF rc # <<>> THEN rc
    ELSE IF Some(pf, IsGo) THEN GoCommand
    ELSE IF Some(pf, IsPy) THEN PyCommand(pf)
    ELSE IF Some(pf, IsServerJs) THEN NodeCommand
    ELSE IF Some(pf, IsJava) THEN JavaCommand(pf)
    ELSE <<>>

DetermineCommand(rc, pf) ==
    IF rc # <<>> THEN rc
    ELSE IF Some(pf, IsPy) THEN PyCommand(pf)
    ELSE IF Some(pf, IsGo) THEN GoCommand
    ELSE IF Some(pf, IsServerJs) THEN NodeCommand
    ELSE IF Some(pf, IsJava) THEN JavaCommand(pf)
    ELSE <<>>

(***************************************************************************)
(* The environment: what exec hands its callback, what callHF returns.     *)
(***************************************************************************)
\* (error, stdout, stderr) of the exec callback; error "" is null, and code is
\* error.code (0 when there is none).  A command that exits non-zero, one the
\* shell could not start (exit code 127, the shell's complaint on stderr) and
\* one that is killed at the timeout all hand over an Error whose message is
\* "Command failed: ..."; they differ in error.code and error.killed.  The
\* program that exits non-zero has printed its trace on stdout and a warning
\* on stderr.
ExecOutcomes ==
    { [error |-> "", killed |-> FALSE, code |-> 0, stdout |-> "hello", stderr |-> ""],
      [error |-> "", killed |-> FALSE, code |-> 0, stdout |-> "", stderr |-> ""],
      [error |-> "Command failed", killed |-> TRUE, code |-> 0, stdout |-> "",
       stderr |-> "Traceback"],
      [error |-> "Command failed", killed |-> FALSE, code |-> 127, stdout |-> "",
       stderr |-> "Traceback"],
      [error |-> "Command failed", killed |-> FALSE, code |-> 1, stdout |-> "Traceback",
       stderr |-> "warning"] }

\* a command that hangs without a word and is killed at the timeout
SilentKill ==
    [error |-> "Command failed", killed |-> TRUE, code |-> 0, stdout |-> "", stderr |-> ""]

Or(a, b) == IF a # "" THEN a ELSE b

\* mutant: success: !!error
ResolveInverted(o) ==
    [success |-> (o.error # ""),
     output  |-> Or(o.stdout, Or(o.stderr, o.error)),
     error   |-> (o.error # "")]

\* resolve({ success: !error, output: stdout || stderr || (error ? error.message : ''), error: !!error })
Resolve(o) ==
    [success |-> (o.error = ""),
     output  |-> Or(o.stdout, Or(o.stderr, o.error)),
     error   |-> (o.error # "")]

ReplyProse == <<"w", "SP", "w">>

ReplyOne ==
    <<"EXPLANATION:", "SP", "w", "NL",
      "FILE:", "SP", "app", ".py", "NL", "FENCE", "py", "NL", "w", "NL", "FENCE">>

ReplyTwo ==
    <<"FILE:", "SP", "app", ".py", "NL", "FENCE", "NL", "w", "FENCE", "NL",
      "file:", "SP", "Q", "app", ".py", "Q", "NL", "FENCE", "NL", "v", "FENCE">>

ReplyBlank == <<"FILE:", "SP", "app", ".py", "NL", "FENCE", "NL", "NL", "FENCE">>

\* a name on a line of its own and a fenced block, without the FILE: marker
ReplyBare == <<"w", "NL", "app", ".py", "NL", "FENCE", "py", "NL", "w", "NL", "FENCE">>

AiReplies == {ReplyProse, ReplyOne, ReplyTwo, ReplyBlank, ReplyBare}

\* the two expressions applied to the replies above, worked out once
ParsedReplies ==
    [t \in AiReplies |->
        [edits |-> [i \in 1..Len(FileMatches(t)) |-> EditOf(FileMatches(t)[i])],
         explanation |-> ExplanationOf(t)]]

\* the (filepath, content) pairs of the successive fileRegex matches of t
Edits(t) ==
    IF t \in DOMAIN ParsedReplies THEN ParsedReplies[t].edits
    ELSE [i \in 1..Len(FileMatches(t)) |-> EditOf(FileMatches(t)[i])]

\* explanationMatch ? explanationMatch[1].trim() : ''
Explanation(t) ==
    IF t \in DOMAIN ParsedReplies THEN ParsedReplies[t].explanation ELSE ExplanationOf(t)

(***************************************************************************)
(* The handler of POST /api/ai/auto-fix.                                   *)
(***************************************************************************)
NoResult == [error |-> "", killed |-> FALSE, code |-> 0, stdout |-> "", stderr |-> ""]
NoOutput == [success |-> FALSE, output |-> "", error |-> FALSE]
NoPrompt == [files |-> <<>>, command |-> <<>>, errorOutput |-> ""]
NoResponse == [status |-> 0]

Subsets(S, n) == {T \in SUBSET S : Cardinality(T) <= n}
Range(s) == {s[i] : i \in 1..Len(s)}

\* no request has reached the terminal endpoints: both maps are empty
TermIdle ==
    /\ children = <<>>
    /\ runningProcesses = <<>>
    /\ previewServers = <<>>
    /\ previewResponse = NoResponse
    /\ kills = <<>>
    /\ crashed = FALSE

\* a request of POST /api/file/:project that has not arrived
NoWrite ==
    [pc |-> "idle", project |-> "", filepath |-> <<>>, content |-> <<>>, effect |-> "",
     at |-> 0, res |-> NoResponse]

\* no request has reached the file endpoint
WriteIdle == writeReqs = [i \in 1..MaxWriters |-> NoWrite]

\* req.body of a chat turn that has not arrived
NoChatReq == [prompt |-> <<>>, project |-> "", image |-> FALSE]

\* let contextInfo = ''
NoContext == [history |-> <<>>, files |-> <<>>, more |-> FALSE]

\* API.chat has not been called
NoClient == [pc |-> "idle", todo |-> <<>>, written |-> <<>>, result |-> NoResponse]

\* no chat turn is being handled
ChatIdle ==
    /\ client = NoClient
    /\ cpc = "idle"
    /\ chatReq = NoChatReq
    /\ chatHistory = <<>>
    /\ chatResponse = NoResponse
    /\ chatCalls = <<>>
    /\ chatCtx = NoContext
    /\ chatAi = <<>>

Init ==
    /\ TermIdle
    /\ ChatIdle
    /\ WriteIdle
    /\ pc = "start"
    /\ project \in {"", "p"}
    /\ runCommand \in {<<>>, <<"run">>}
    /\ \E S \in Subsets(Range(FileUniverse), MaxFiles) : files = [f \in S |-> <<"w">>]
    /\ projectFiles = <<>>
    /\ command = <<>>
    /\ attempt = 0
    /\ fixes = <<>>
    /\ execResult = NoResult
    /\ output = NoOutput
    /\ fixPrompt = NoPrompt
    /\ aiResponse = <<>>
    /\ matchIdx = 0
    /\ fixedFiles = <<>>
    /\ response = NoResponse
    /\ inflight = {}
    /\ execCalls = 0
    /\ hfCalls = 0
    /\ writeCalls = 0
    /\ writeFails = 0

\* res.json({ success: false, message: 'Could not determine ...', fixes: [] })
AbandonedResponse ==
    [status |-> 200, success |-> FALSE, message |-> "Could not determine how to run",
     fixes |-> <<>>]

\* res.json({ success: true, message, fixes, finalOutput })
SuccessResponse(fx, out, n) ==
    [status |-> 200, success |-> TRUE, message |-> <<"Success", n - 1>>,
     fixes |-> fx, finalOutput |-> out]

\* mutant: the final answer carries the last record only
ExhaustedResponseLastOnly(fx) ==
    [status |-> 200, success |-> FALSE, message |-> <<"Could not fix", maxAttempts>>,
     fixes |-> IF fx = <<>> THEN fx ELSE <<fx[Len(fx)]>>]

\* res.json({ success: false, message: 'Could not fix all errors ...', fixes })
ExhaustedResponse(fx) ==
    [status |-> 200, success |-> FALSE, message |-> <<"Could not fix", maxAttempts>>,
     fixes |-> fx]

\* mutant: the catch block answers without the history
ErrorResponseNoHistory(msg, fx) == [status |-> 500, error |-> msg, fixes |-> <<>>]

\* catch (err): res.status(500).json({ error: err.message, fixes })
ErrorResponse(msg, fx) == [status |-> 500, error |-> msg, fixes |-> fx]

\* if (!project) return 400; else await db.getAllProjectFiles(project)
CheckProject ==
    /\ pc = "start"
    /\ IF project = ""
       THEN /\ response' = [status |-> 400, error |-> "Project required"]
            /\ pc' = "done"
            /\ UNCHANGED inflight
       ELSE /\ inflight' = {[op |-> "getAllProjectFiles"]}
            /\ pc' = "list_wait"
            /\ UNCHANGED response
    /\ UNCHANGED <<termVars, chatVars, writeReqs, execResult, project, runCommand, files, projectFiles, command, attempt, fixes,
                   output, fixPrompt, aiResponse, matchIdx, fixedFiles,
                   execCalls, hfCalls, writeCalls, writeFails>>

ListFilesReturn ==
    /\ pc = "list_wait"
    /\ projectFiles' = getAllProjectFiles(files)
    /\ inflight' = {}
    /\ pc' = "determine"
    /\ UNCHANGED <<termVars, chatVars, writeReqs, execResult, project, runCommand, files, command, attempt, fixes, output,
                   fixPrompt, aiResponse, matchIdx, fixedFiles, response,
                   execCalls, hfCalls, writeCalls, writeFails>>

ListFilesThrow ==
    /\ pc = "list_wait"
    /\ inflight' = {}
    /\ response' = ErrorResponse("query failed", fixes)
    /\ pc' = "done"
    /\ UNCHANGED <<termVars, chatVars, writeReqs, execResult, project, runCommand, files, projectFiles, command, attempt, fixes,
                   output, fixPrompt, aiResponse, matchIdx, fixedFiles,
                   execCalls, hfCalls, writeCalls, writeFails>>

ChooseCommand ==
    /\ pc = "determine"
    /\ command' = DetermineCommand(runCommand, projectFiles)
    /\ IF command' = <<>>
       THEN /\ response' = AbandonedResponse
            /\ pc' = "done"
            /\ UNCHANGED attempt
       ELSE /\ attempt' = 1
            /\ pc' = "loop"
            /\ UNCHANGED response
    /\ UNCHANGED <<termVars, chatVars, writeReqs, execResult, project, runCommand, files, projectFiles, fixes, output,
                   fixPrompt, aiResponse, matchIdx, fixedFiles, inflight,
                   execCalls, hfCalls, writeCalls, writeFails>>

\* mutant: the loop test off by one
LoopConditionOffByOne == attempt <= maxAttempts + 1

\* attempt <= maxAttempts
LoopCondition == attempt <= maxAttempts

\* the loop test, then exec(command, { timeout: 15000, shell: true }, callback)
RunCommand ==
    /\ pc = "loop"
    /\ IF LoopCondition
       THEN /\ inflight' = inflight \cup {[op |-> "exec", attempt |-> attempt, timeout |-> RunTimeout]}
            /\ execCalls' = execCalls + 1
            /\ pc' = "exec_wait"
            /\ UNCHANGED response
       ELSE /\ response' = ExhaustedResponse(fixes)
            /\ pc' = "done"
            /\ UNCHANGED <<inflight, execCalls>>
    /\ UNCHANGED <<termVars, chatVars, writeReqs, execResult, project, runCommand, files, projectFiles, command, attempt, fixes,
                   output, fixPrompt, aiResponse, matchIdx, fixedFiles,
                   hfCalls, writeCalls, writeFails>>

SuccessRecord(n, out) ==
    [attempt |-> n, action |-> "success", message |-> "Code runs successfully!",
     output |-> out]

\* mutant: the attempts of error_detected records are counted from 0
ErrorRecordZeroBased(n, out) ==
    [attempt |-> n - 1, action |-> "error_detected", message |-> <<"Attempt", n>>,
     error |-> out]

ErrorRecord(n, out) ==
    [attempt |-> n, action |-> "error_detected", message |-> <<"Attempt", n>>,
     error |-> out]

\* mutant: the success branch without its return
ExecReturnNoReturn ==
    /\ pc = "exec_wait"
    /\ \E o \in ExecOutcomes :
         /\ execResult' = o
         /\ output' = Resolve(o)
         /\ inflight' = inflight \ {[op |-> "exec", attempt |-> attempt, timeout |-> RunTimeout]}
         /\ IF output'.success
            THEN fixes' = Append(Append(fixes, SuccessRecord(attempt, output'.output)),
                                 ErrorRecord(attempt, output'.output))
            ELSE fixes' = Append(fixes, ErrorRecord(attempt, output'.output))
         /\ pc' = "read"
    /\ UNCHANGED <<termVars, chatVars, writeReqs, project, runCommand, files, projectFiles, command, attempt,
                   fixPrompt, aiResponse, matchIdx, fixedFiles, response,
                   execCalls, hfCalls, writeCalls, writeFails>>

\* mutant: a run killed at the timeout ends the loop
ExecReturnTimeoutEnds ==
    /\ pc = "exec_wait"
    /\ \E o \in ExecOutcomes :
         /\ execResult' = o
         /\ output' = Resolve(o)
         /\ inflight' = inflight \ {[op |-> "exec", attempt |-> attempt, timeout |-> RunTimeout]}
         /\ IF output'.success
            THEN /\ fixes' = Append(fixes, SuccessRecord(attempt, output'.output))
                 /\ response' = SuccessResponse(fixes', output'.output, attempt)
                 /\ pc' = "done"
            ELSE IF o.killed
            THEN /\ fixes' = Append(fixes, ErrorRecord(attempt, output'.output))
                 /\ response' = ExhaustedResponse(fixes')
                 /\ pc' = "done"
            ELSE /\ fixes' = Append(fixes, ErrorRecord(attempt, output'.output))
                 /\ pc' = "read"
                 /\ UNCHANGED response
    /\ UNCHANGED <<termVars, chatVars, writeReqs, project, runCommand, files, projectFiles, command, attempt,
                   fixPrompt, aiResponse, matchIdx, fixedFiles,
                   execCalls, hfCalls, writeCalls, writeFails>>

\* the exec callback resolves the promise; lines 208-231
ExecReturn ==
    /\ pc = "exec_wait"
    /\ \E o \in ExecOutcomes :
         /\ execResult' = o
         /\ output' = Resolve(o)
         /\ inflight' = inflight \ {[op |-> "exec", attempt |-> attempt, timeout |-> RunTimeout]}
         /\ IF output'.success
            THEN /\ fixes' = Append(fixes, SuccessRecord(attempt, output'.output))
                 /\ response' = SuccessResponse(fixes', output'.output, attempt)
                 /\ pc' = "done"
            ELSE /\ fixes' = Append(fixes, ErrorRecord(attempt, output'.output))
                 /\ pc' = "read"
                 /\ UNCHANGED response
    /\ UNCHANGED <<termVars, chatVars, writeReqs, project, runCommand, files, projectFiles, command, attempt,
                   fixPrompt, aiResponse, matchIdx, fixedFiles,
                   execCalls, hfCalls, writeCalls, writeFails>>

\* mutant: every file of the project is read, and read whole
FileContentsWhole(store, pf) ==
    LET readable == SelectSeq(pf, LAMBDA f : f \in DOMAIN store)
    IN  [i \in 1..Len(readable) |-> [name |-> readable[i], content |-> store[readable[i]]]]

\* for (const file of projectFiles.slice(0, 10)) try { readFile } catch {}
FileContents(store, pf) ==
    LET firstFiles == Substring(pf, PromptFiles)
        readable == SelectSeq(firstFiles, LAMBDA f : f \in DOMAIN store)
    IN  [i \in 1..Len(readable) |->
            [name |-> readable[i], content |-> Substring(store[readable[i]], PromptChars)]]

\* lines 233-271: read the files, build fixPrompt, call callHF(fixPrompt)
AskAI ==
    /\ pc = "read"
    /\ fixPrompt' = [files |-> FileContents(files, projectFiles), command |-> command,
                     errorOutput |-> output.output]
    /\ hfCalls' = hfCalls + 1
    /\ inflight' = inflight \cup {[op |-> "callHF", attempt |-> attempt]}
    /\ pc' = "hf_wait"
    /\ UNCHANGED <<termVars, chatVars, writeReqs, execResult, project, runCommand, files, projectFiles, command, attempt, fixes,
                   output, aiResponse, matchIdx, fixedFiles, response,
                   execCalls, writeCalls, writeFails>>

HFReturn ==
    /\ pc = "hf_wait"
    /\ \E r \in AiReplies : aiResponse' = r
    /\ matchIdx' = 1
    /\ fixedFiles' = <<>>
    /\ inflight' = inflight \ {[op |-> "callHF", attempt |-> attempt]}
    /\ pc' = "scan"
    /\ UNCHANGED <<termVars, chatVars, writeReqs, execResult, project, runCommand, files, projectFiles, command, attempt, fixes,
                   output, fixPrompt, response, execCalls, hfCalls, writeCalls,
                   writeFails>>

\* callHF throws (HF_TOKEN missing, transport error, status not ok): the catch block
HFThrow ==
    /\ pc = "hf_wait"
    /\ inflight' = inflight \ {[op |-> "callHF", attempt |-> attempt]}
    /\ response' = ErrorResponse("HF error", fixes)
    /\ pc' = "done"
    /\ UNCHANGED <<termVars, chatVars, writeReqs, execResult, project, runCommand, files, projectFiles, command, attempt, fixes,
                   output, fixPrompt, aiResponse, matchIdx, fixedFiles,
                   execCalls, hfCalls, writeCalls, writeFails>>

WriteCall(e) == [op |-> "writeFile", attempt |-> attempt, filepath |-> e.filepath,
                 content |-> e.content]

\* mutant: db.writeFile called without await
NextMatchNoAwait ==
    /\ pc = "scan"
    /\ matchIdx <= Len(Edits(aiResponse))
    /\ LET e == Edits(aiResponse)[matchIdx]
       IN  IF e.filepath # <<>> /\ e.content # <<>>
           THEN /\ inflight' = inflight \cup {WriteCall(e)}
                /\ writeCalls' = writeCalls + 1
                /\ fixedFiles' = Append(fixedFiles, e.filepath)
           ELSE UNCHANGED <<inflight, writeCalls, fixedFiles>>
    /\ matchIdx' = matchIdx + 1
    /\ UNCHANGED <<termVars, chatVars, writeReqs, pc, execResult, project, runCommand, files, projectFiles, command,
                   attempt, fixes, output, fixPrompt, aiResponse, response,
                   execCalls, hfCalls, writeFails>>

\* one turn of while ((match = fileRegex.exec(aiResponse)) !== null), up to the await
NextMatch ==
    /\ pc = "scan"
    /\ matchIdx <= Len(Edits(aiResponse))
    /\ LET e == Edits(aiResponse)[matchIdx]
       IN  IF e.filepath # <<>> /\ e.content # <<>>
           THEN /\ inflight' = inflight \cup {WriteCall(e)}
                /\ writeCalls' = writeCalls + 1
                /\ pc' = "write_wait"
                /\ UNCHANGED matchIdx
           ELSE /\ matchIdx' = matchIdx + 1
                /\ UNCHANGED <<inflight, writeCalls, pc>>
    /\ UNCHANGED <<termVars, chatVars, writeReqs, execResult, project, runCommand, files, projectFiles, command, attempt, fixes,
                   output, fixPrompt, aiResponse, fixedFiles, response,
                   execCalls, hfCalls, writeFails>>

\* mutant: INSERT ... ON CONFLICT (project_id, filepath) DO NOTHING
writeFileKeepsFirst(store, filepath, content) ==
    [f \in DOMAIN store \cup {filepath} |-> IF f \in DOMAIN store THEN store[f] ELSE content]

\* INSERT ... ON CONFLICT (project_id, filepath) DO UPDATE SET content = $3
writeFile(store, filepath, content) ==
    [f \in DOMAIN store \cup {filepath} |-> IF f = filepath THEN content ELSE store[f]]

\* await db.writeFile(...) returns; fixedFiles.push(filepath)
WriteReturn ==
    /\ pc = "write_wait"
    /\ \E c \in inflight :
         /\ c.op = "writeFile"
         /\ files' = writeFile(files, c.filepath, c.content)
         /\ fixedFiles' = Append(fixedFiles, c.filepath)
         /\ inflight' = inflight \ {c}
    /\ matchIdx' = matchIdx + 1
    /\ pc' = "scan"
    /\ UNCHANGED <<termVars, chatVars, writeReqs, execResult, project, runCommand, projectFiles, command, attempt, fixes, output,
                   fixPrompt, aiResponse, response, execCalls, hfCalls, writeCalls,
                   writeFails>>

\* mutant: the path of a write that threw is listed with the written ones
WriteThrowListsPath ==
    /\ pc = "write_wait"
    /\ writeFails < MaxWriteFailures
    /\ \E c \in inflight :
         /\ c.op = "writeFile"
         /\ fixedFiles' = Append(fixedFiles, c.filepath)
         /\ inflight' = inflight \ {c}
    /\ writeFails' = writeFails + 1
    /\ matchIdx' = matchIdx + 1
    /\ pc' = "scan"
    /\ UNCHANGED <<termVars, chatVars, writeReqs, execResult, project, runCommand, files, projectFiles, command, attempt, fixes,
                   output, fixPrompt, aiResponse, response,
                   execCalls, hfCalls, writeCalls>>

\* await db.writeFile(...) throws; catch (err) { console.error(...) }
WriteThrow ==
    /\ pc = "write_wait"
    /\ writeFails < MaxWriteFailures
    /\ \E c \in inflight :
         /\ c.op = "writeFile"
         /\ inflight' = inflight \ {c}
    /\ writeFails' = writeFails + 1
    /\ matchIdx' = matchIdx + 1
    /\ pc' = "scan"
    /\ UNCHANGED <<termVars, chatVars, writeReqs, execResult, project, runCommand, files, projectFiles, command, attempt, fixes,
                   output, fixPrompt, aiResponse, fixedFiles, response,
                   execCalls, hfCalls, writeCalls>>

AppliedRecord(n, ff, text) ==
    [attempt |-> n, action |-> "applied_fix", message |-> <<"Applied fix to", ff>>,
     explanation |-> IF Explanation(text) # <<>> THEN Explanation(text)
                     ELSE <<"Fixed the error">>,
     files |-> ff]

NoFixRecord(n, text) ==
    [attempt |-> n, action |-> "no_fix_found", message |-> "AI couldn't generate a fix",
     aiResponse |-> Substring(text, EchoChars)]

\* mutant: continue in place of break after no_fix_found
RecordFixNoBreak ==
    /\ pc = "scan"
    /\ matchIdx > Len(Edits(aiResponse))
    /\ IF Len(fixedFiles) > 0
       THEN fixes' = Append(fixes, AppliedRecord(attempt, fixedFiles, aiResponse))
       ELSE fixes' = Append(fixes, NoFixRecord(attempt, aiResponse))
    /\ attempt' = attempt + 1
    /\ pc' = "loop"
    /\ UNCHANGED <<termVars, chatVars, writeReqs, execResult, project, runCommand, files, projectFiles, command, output,
                   fixPrompt, aiResponse, matchIdx, fixedFiles, inflight, response,
                   execCalls, hfCalls, writeCalls, writeFails>>

\* mutant: break after applied_fix as well
RecordFixAlwaysBreak ==
    /\ pc = "scan"
    /\ matchIdx > Len(Edits(aiResponse))
    /\ IF Len(fixedFiles) > 0
       THEN fixes' = Append(fixes, AppliedRecord(attempt, fixedFiles, aiResponse))
       ELSE fixes' = Append(fixes, NoFixRecord(attempt, aiResponse))
    /\ response' = ExhaustedResponse(fixes')
    /\ pc' = "done"
    /\ UNCHANGED <<termVars, chatVars, writeReqs, execResult, project, runCommand, files, projectFiles, command, output,
                   attempt, fixPrompt, aiResponse, matchIdx, fixedFiles, inflight,
                   execCalls, hfCalls, writeCalls, writeFails>>

\* lines 297-313, after the last match: applied_fix and attempt++, or no_fix_found and break
RecordFix ==
    /\ pc = "scan"
    /\ matchIdx > Len(Edits(aiResponse))
    /\ IF Len(fixedFiles) > 0
       THEN /\ fixes' = Append(fixes, AppliedRecord(attempt, fixedFiles, aiResponse))
            /\ attempt' = attempt + 1
            /\ pc' = "loop"
            /\ UNCHANGED response
       ELSE /\ fixes' = Append(fixes, NoFixRecord(attempt, aiResponse))
            /\ response' = ExhaustedResponse(fixes')
            /\ pc' = "done"
            /\ UNCHANGED attempt
    /\ UNCHANGED <<termVars, chatVars, writeReqs, execResult, project, runCommand, files, projectFiles, command, output,
                   fixPrompt, aiResponse, matchIdx, fixedFiles, inflight,
                   execCalls, hfCalls, writeCalls, writeFails>>

Next ==
    \/ CheckProject
    \/ ListFilesReturn
    \/ ListFilesThrow
    \/ ChooseCommand
    \/ RunCommand
    \/ ExecReturn
    \/ AskAI
    \/ HFReturn
    \/ HFThrow
    \/ NextMatch
    \/ WriteReturn
    \/ WriteThrow
    \/ RecordFix

Spec == Init /\ [][Next]_vars

\* the event loop runs the handler on whenever the call it awaits has settled
FairSpec == Spec /\ WF_vars(Next)

(***************************************************************************)
(* The repair prompt of a large project.  The handler has listed the       *)
(* project, the first run has failed, and lines 233-271 build fixPrompt    *)
(* from the files.  The project holds up to BigFiles files; its first file *)
(* and its other files have lengths around the limit of line 242, up to    *)
(* BigChars characters.                                                    *)
(***************************************************************************)
\* the i-th name of a large project, in the order of ORDER BY filepath
BigName(i) == [j \in 1..i |-> "w"] \o <<".py">>

Chars(n) == [j \in 1..n |-> "w"]

FileCounts == {0, 1, PromptFiles - 1, PromptFiles, PromptFiles + 1, BigFiles}
FileSizes == {0, 1, PromptChars - 1, PromptChars, PromptChars + 1, BigChars}

\* the state of the handler after the first run of command has failed with
\* the result o, for the content store and the listing pf
FirstRunFailed(store, pf, o) ==
    /\ TermIdle
    /\ ChatIdle
    /\ WriteIdle
    /\ pc = "read"
    /\ project = "p"
    /\ runCommand = <<"run">>
    /\ files = store
    /\ projectFiles = pf
    /\ command = <<"run">>
    /\ attempt = 1
    /\ execResult = o
    /\ output = Resolve(o)
    /\ fixes = <<ErrorRecord(1, Resolve(o).output)>>
    /\ fixPrompt = NoPrompt
    /\ aiResponse = <<>>
    /\ matchIdx = 0
    /\ fixedFiles = <<>>
    /\ response = NoResponse
    /\ inflight = {}
    /\ execCalls = 1
    /\ hfCalls = 0
    /\ writeCalls = 0
    /\ writeFails = 0

PromptInit ==
    \E n \in FileCounts, a \in FileSizes, b \in FileSizes,
       o \in {x \in ExecOutcomes : x.error # ""} :
        FirstRunFailed([f \in {BigName(i) : i \in 1..n} |->
                           IF f = BigName(1) THEN Chars(a) ELSE Chars(b)],
                       [i \in 1..n |-> BigName(i)], o)

PromptNext == AskAI

PromptSpec == PromptInit /\ [][PromptNext]_vars

(***************************************************************************)
(* The terminal endpoints (lines 1005-1257).  A command is a token         *)
(* sequence like every other text; a key of runningProcesses is a string.  *)
(***************************************************************************)
\* the search texts of the run handler that occur inside a token
KeywordsIn(tok) ==
    CASE tok = "http.server" -> {"http.server", "serve"}
      [] tok = "serve"       -> {"serve"}
      [] tok = "server"      -> {"serve"}
      [] tok = "run"         -> {"run"}
      [] tok = "python"      -> {"python"}
      [] tok = "python3"     -> {"python"}
      [] OTHER               -> {}

\* command.includes(text)
CommandIncludes(c, text) == \E i \in 1..Len(c) : text \in KeywordsIn(c[i])

\* const isServerCommand
isServerCommand(c) ==
    \/ CommandIncludes(c, "http.server")
    \/ CommandIncludes(c, "serve")
    \/ (CommandIncludes(c, "run") /\ Includes2(c, "app", ".py"))

\* command.replace(/^python/, 'py')
ReplacePython(c) ==
    IF c # <<>> /\ c[1] = "python" THEN <<"py">> \o Tail(c)
    ELSE IF c # <<>> /\ c[1] = "python3" THEN <<"py3">> \o Tail(c)
    ELSE c

\* if (command.includes('python')) cmd = command.replace(/^python/, 'py')
ServerShim(c) == IF CommandIncludes(c, "python") THEN ReplacePython(c) ELSE c

\* mutant: the command is spawned as it was sent
CliShimNone(c) == c

\* if (command.startsWith('python ')) cmd = command.replace(/^python/, 'py')
CliShim(c) ==
    IF Len(c) >= 2 /\ c[1] = "python" /\ c[2] = "SP" THEN ReplacePython(c) ELSE c

\* the match of /\d{4,5}$/ in a token ("" when the token does not end in four digits)
PortDigits(tok) ==
    CASE tok = "8080"   -> "8080"
      [] tok = "123456" -> "23456"
      [] OTHER          -> ""

\* mutant: the port is always the default
DetectPortDefault(c) == "8000"

\* const port = portMatch ? portMatch[0] : '8000'
DetectPort(c) ==
    IF c # <<>> /\ PortDigits(c[Len(c)]) # "" THEN PortDigits(c[Len(c)]) ELSE "8000"

\* the commands a request may carry
TermCommands ==
    { <<"python", "SP", "app", ".py">>,
      <<"python", "SP", "-m", "SP", "http.server", "SP", "8080">>,
      <<"npx", "SP", "serve">> }

\* req.body.project of a terminal request ("" when absent)
TermProjects == {"", "p"}

\* project || 'default'
KeyOf(p) == IF p = "" THEN "default" ELSE p

\* Map.prototype.has / get / set / delete on a sequence of [key, value] entries
MapHas(m, k) == \E i \in 1..Len(m) : m[i].key = k
MapGet(m, k) == m[CHOOSE i \in 1..Len(m) : m[i].key = k].value

\* mutant: a second registration is kept beside the first
MapSetAppend(m, k, v) == Append(m, [key |-> k, value |-> v])

MapSet(m, k, v) ==
    IF MapHas(m, k)
    THEN [i \in 1..Len(m) |-> IF m[i].key = k THEN [key |-> k, value |-> v] ELSE m[i]]
    ELSE Append(m, [key |-> k, value |-> v])

MapDelete(m, k) == SelectSeq(m, LAMBDA e : e.key # k)

\* what the streams of a background command may have written during the settle window
ServerOutputs == {"", "Serving"}

\* pids a kill request may name: none (0), a child of this server, any other process
KillPids == 0..Len(children) \cup {ForeignPid}

\* mutant: a long-running command is spawned with the timeout of a regular one
ServerChildTimeout(c, p, id, hasPid) ==
    [kind |-> "server", project |-> p, key |-> KeyOf(p), command |-> c, cmd |-> ServerShim(c),
     port |-> DetectPort(c), timeout |-> CliTimeout, pid |-> IF hasPid THEN id ELSE 0,
     alive |-> hasPid, timer |-> TRUE, errorEvent |-> ~hasPid, exitEvent |-> FALSE,
     result |-> NoResult, endedBy |-> "", res |-> NoResponse]

\* the child process exec returns for a long-running command (lines 1023-1040):
\* the options of this call name no timeout
ServerChild(c, p, id, hasPid) ==
    [kind |-> "server", project |-> p, key |-> KeyOf(p), command |-> c, cmd |-> ServerShim(c),
     port |-> DetectPort(c), timeout |-> 0, pid |-> IF hasPid THEN id ELSE 0,
     alive |-> hasPid, timer |-> TRUE, errorEvent |-> ~hasPid, exitEvent |-> FALSE,
     result |-> NoResult, endedBy |-> "", res |-> NoResponse]

\* the child process exec returns for a regular command (lines 1097-1110);
\* this branch makes no use of project
CliChild(c, p, id) ==
    [kind |-> "cli", project |-> "", key |-> "", command |-> c, cmd |-> CliShim(c),
     port |-> "", timeout |-> CliTimeout, pid |-> id,
     alive |-> TRUE, timer |-> FALSE, errorEvent |-> FALSE, exitEvent |-> FALSE,
     result |-> NoResult, endedBy |-> "", res |-> NoResponse]

\* POST /api/terminal/run up to the call of exec
TerminalRun(c, p) ==
    /\ ~crashed
    /\ Len(children) < MaxRuns
    /\ LET id == Len(children) + 1
       IN  IF isServerCommand(c)
           THEN \E hasPid \in BOOLEAN :
                    children' = Append(children, ServerChild(c, p, id, hasPid))
           ELSE children' = Append(children, CliChild(c, p, id))
    /\ UNCHANGED <<autoVars, chatVars, writeReqs, runningProcesses, previewServers, previewResponse, kills, crashed>>

\* res.json({ output: serverMsg, background: true, url: `http://localhost:${port}` })
ServerStarted(ch, out) ==
    [status |-> 200, output |-> <<"Server started", ch.port, ch.pid, out>>,
     background |-> TRUE, url |-> <<"http://localhost:", ch.port>>]

\* res.json({ output: output || 'Command failed to start', error: true })
ServerFailed(out) ==
    [status |-> 200, output |-> Or(out, "Command failed to start"), error |-> TRUE]

\* the callback of setTimeout(..., 2000), lines 1062-1082.  A second res.json on
\* an answered request throws, and nothing catches what a timer callback throws.
SettleTimer(i) ==
    /\ ~crashed
    /\ i \in 1..Len(children)
    /\ children[i].timer
    /\ \E out \in ServerOutputs :
         IF children[i].pid # 0
         THEN /\ runningProcesses' = MapSet(runningProcesses, children[i].key, i)
              /\ IF children[i].res = NoResponse
                 THEN /\ children' = [children EXCEPT ![i].timer = FALSE,
                                              ![i].res = ServerStarted(children[i], out)]
                      /\ UNCHANGED crashed
                 ELSE /\ children' = [children EXCEPT ![i].timer = FALSE]
                      /\ crashed' = TRUE
         ELSE /\ UNCHANGED runningProcesses
              /\ IF children[i].res = NoResponse
                 THEN /\ children' = [children EXCEPT ![i].timer = FALSE,
                                                      ![i].res = ServerFailed(out)]
                      /\ UNCHANGED crashed
                 ELSE /\ children' = [children EXCEPT ![i].timer = FALSE]
                      /\ crashed' = TRUE
    /\ UNCHANGED <<autoVars, chatVars, writeReqs, previewServers, previewResponse, kills>>

\* child.on('error', ...), lines 1084-1089
ChildError(i) ==
    /\ ~crashed
    /\ i \in 1..Len(children)
    /\ children[i].errorEvent
    /\ children' =
         [children EXCEPT ![i].errorEvent = FALSE,
                          ![i].res = IF @ = NoResponse
                                     THEN [status |-> 200, output |-> "Error starting server",
                                           error |-> TRUE]
                                     ELSE @]
    /\ UNCHANGED <<autoVars, chatVars, writeReqs, runningProcesses, previewServers, previewResponse, kills, crashed>>

\* how a child process may end without a taskkill: by itself, and at the
\* timeout when exec was given one
Endings(ch) == IF ch.timeout > 0 THEN {"exit", "timeout"} ELSE {"exit"}

\* a background command ends
ProcessExits(i) ==
    /\ ~crashed
    /\ i \in 1..Len(children)
    /\ children[i].kind = "server"
    /\ children[i].alive
    /\ \E how \in Endings(children[i]) :
         children' = [children EXCEPT ![i].alive = FALSE, ![i].exitEvent = TRUE,
                                      ![i].endedBy = how]
    /\ UNCHANGED <<autoVars, chatVars, writeReqs, runningProcesses, previewServers, previewResponse, kills, crashed>>

\* child.on('exit', ...), lines 1091-1094
ChildExit(i) ==
    /\ ~crashed
    /\ i \in 1..Len(children)
    /\ children[i].exitEvent
    /\ children' = [children EXCEPT ![i].exitEvent = FALSE]
    /\ runningProcesses' = MapDelete(runningProcesses, children[i].key)
    /\ UNCHANGED <<autoVars, chatVars, writeReqs, previewServers, previewResponse, kills, crashed>>

\* mutant: a failed command answers with stdout before stderr
CliResponseStdoutFirst(o) ==
    IF o.error # ""
    THEN [status |-> 200, output |-> Or(o.stdout, Or(o.stderr, o.error)), error |-> TRUE]
    ELSE [status |-> 200, output |-> Or(o.stdout, Or(o.stderr, "Command executed successfully"))]

\* the answer of a regular command, lines 1110-1116
CliResponse(o) ==
    IF o.error # ""
    THEN [status |-> 200, output |-> Or(o.stderr, Or(o.stdout, o.error)), error |-> TRUE]
    ELSE [status |-> 200, output |-> Or(o.stdout, Or(o.stderr, "Command executed successfully"))]

\* what exec may hand the callback of a regular command: every outcome, the
\* kill at the timeout included; after a taskkill only a failure
CliOutcomes(ch) ==
    {o \in ExecOutcomes \cup {SilentKill} :
        /\ o.killed => "timeout" \in Endings(ch)
        /\ ch.endedBy = "kill" => (o.error # "" /\ ~o.killed)}

\* the callback of exec(cmd, { timeout: 30000, ... }), lines 1110-1116
CliReturn(i) ==
    /\ ~crashed
    /\ i \in 1..Len(children)
    /\ children[i].kind = "cli"
    /\ children[i].res = NoResponse
    /\ \E o \in CliOutcomes(children[i]) :
         children' = [children EXCEPT
                        ![i].alive = FALSE,
                        ![i].result = o,
                        ![i].endedBy = IF @ # "" THEN @
                                       ELSE IF o.killed THEN "timeout" ELSE "exit",
                        ![i].res = CliResponse(o)]
    /\ UNCHANGED <<autoVars, chatVars, writeReqs, runningProcesses, previewServers, previewResponse, kills, crashed>>

\* POST /api/terminal/kill up to the call of exec(`taskkill /F /PID ${pid}`):
\* taskkill ends a live process and fails for a pid that names none
KillRequest(pid) ==
    /\ ~crashed
    /\ Len(kills) < MaxKills
    /\ IF pid = 0
       THEN /\ kills' = Append(kills, [pid |-> 0, pending |-> FALSE, ok |-> FALSE,
                                       res |-> [status |-> 400, error |-> "PID required"]])
            /\ UNCHANGED children
       ELSE \E ok \in BOOLEAN :
              /\ pid \in 1..Len(children) => ok = children[pid].alive
              /\ kills' = Append(kills, [pid |-> pid, pending |-> TRUE, ok |-> ok,
                                         res |-> NoResponse])
              /\ IF ok /\ pid \in 1..Len(children)
                 THEN children' = [children EXCEPT
                                     ![pid].alive = FALSE,
                                     ![pid].endedBy = "kill",
                                     ![pid].exitEvent = (children[pid].kind = "server")]
                 ELSE UNCHANGED children
    /\ UNCHANGED <<autoVars, chatVars, writeReqs, runningProcesses, previewServers, previewResponse, crashed>>

\* mutant: the record is removed whatever taskkill reported
KillReturnAlwaysRemove(k) ==
    /\ ~crashed
    /\ k \in 1..Len(kills)
    /\ kills[k].pending
    /\ runningProcesses' =
           SelectSeq(runningProcesses, LAMBDA e : children[e.value].pid # kills[k].pid)
    /\ kills' = [kills EXCEPT
                    ![k].pending = FALSE,
                    ![k].res = IF kills[k].ok
                               THEN [status |-> 200, success |-> TRUE,
                                     message |-> <<"Process killed", kills[k].pid>>]
                               ELSE [status |-> 200, success |-> FALSE,
                                     error |-> "Could not kill process"]]
    /\ UNCHANGED <<autoVars, chatVars, writeReqs, children, previewServers, previewResponse, crashed>>

\* mutant: the tracked record is left in the map
KillReturnKeepsRecord(k) ==
    /\ ~crashed
    /\ k \in 1..Len(kills)
    /\ kills[k].pending
    /\ kills' = [kills EXCEPT
                    ![k].pending = FALSE,
                    ![k].res = IF kills[k].ok
                               THEN [status |-> 200, success |-> TRUE,
                                     message |-> <<"Process killed", kills[k].pid>>]
                               ELSE [status |-> 200, success |-> FALSE,
                                     error |-> "Could not kill process"]]
    /\ UNCHANGED <<autoVars, chatVars, writeReqs, children, runningProcesses, previewServers, previewResponse, crashed>>

\* the callback of exec(`taskkill /F /PID ${pid}`), lines 1205-1225
KillReturn(k) ==
    /\ ~crashed
    /\ k \in 1..Len(kills)
    /\ kills[k].pending
    /\ IF kills[k].ok
       THEN /\ runningProcesses' =
                 SelectSeq(runningProcesses, LAMBDA e : children[e.value].pid # kills[k].pid)
            /\ kills' = [kills EXCEPT
                           ![k].pending = FALSE,
                           ![k].res = [status |-> 200, success |-> TRUE,
                                       message |-> <<"Process killed", kills[k].pid>>]]
       ELSE /\ kills' = [kills EXCEPT
                           ![k].pending = FALSE,
                           ![k].res = [status |-> 200, success |-> FALSE,
                                       error |-> "Could not kill process"]]
            /\ UNCHANGED runningProcesses
    /\ UNCHANGED <<autoVars, chatVars, writeReqs, children, previewServers, previewResponse, crashed>>

\* GET /api/terminal/processes: the list it answers with
listProcesses ==
    [i \in 1..Len(runningProcesses) |->
        [pid |-> children[runningProcesses[i].value].pid,
         name |-> <<"Background process", runningProcesses[i].key>>]]

\* everything of the auto-fix handler at rest but the content store
AutoQuiet ==
    /\ pc = "idle"
    /\ project = ""
    /\ runCommand = <<>>
    /\ projectFiles = <<>>
    /\ command = <<>>
    /\ attempt = 0
    /\ fixes = <<>>
    /\ execResult = NoResult
    /\ output = NoOutput
    /\ fixPrompt = NoPrompt
    /\ aiResponse = <<>>
    /\ matchIdx = 0
    /\ fixedFiles = <<>>
    /\ response = NoResponse
    /\ inflight = {}
    /\ execCalls = 0
    /\ hfCalls = 0
    /\ writeCalls = 0
    /\ writeFails = 0

\* no auto-fix request is being handled
AutoIdle == AutoQuiet /\ files = [f \in {} |-> <<>>]

\* previewServers.has(project)
HasPreview(servers, p) == \E i \in 1..Len(servers) : servers[i].key = p

\* mutant: a stop request answers success: true whether or not a record exists
StopAnswerAlwaysStopped(servers, p) ==
    [status |-> 200, op |-> "stop", project |-> p, success |-> TRUE,
     message |-> "Preview server stopped"]

\* what POST /api/terminal/stop answers for a project (lines 1178-1191)
StopAnswer(servers, p) ==
    IF HasPreview(servers, p)
    THEN [status |-> 200, op |-> "stop", project |-> p, success |-> TRUE,
          message |-> "Preview server stopped"]
    ELSE [status |-> 200, op |-> "stop", project |-> p, success |-> FALSE,
          message |-> "No preview server running for this project"]

\* POST /api/terminal/host (lines 1123-1168): 400 without a project, and
\* otherwise the answer of line 1131; the code that made a server and called
\* previewServers.set (1137-1165) is inside a comment
HostPreview(p) ==
    /\ ~crashed
    /\ previewResponse' =
          IF p = "" THEN [status |-> 400, op |-> "host", project |-> p,
                          error |-> "Project required"]
          ELSE [status |-> 200, op |-> "host", project |-> p, success |-> FALSE,
                message |-> "Preview server is not available with database storage"]
    /\ UNCHANGED <<autoVars, chatVars, writeReqs, children, runningProcesses, previewServers, kills,
                   crashed>>

\* POST /api/terminal/stop (lines 1171-1195): 400 without a project; with a
\* record, server.close(), previewServers.delete(project) and success: true;
\* without one, success: false
StopPreview(p) ==
    /\ ~crashed
    /\ IF p = ""
       THEN /\ previewResponse' = [status |-> 400, op |-> "stop", project |-> p,
                                   error |-> "Project required"]
            /\ UNCHANGED previewServers
       ELSE /\ previewResponse' = StopAnswer(previewServers, p)
            /\ previewServers' = SelectSeq(previewServers, LAMBDA e : e.key # p)
    /\ UNCHANGED <<autoVars, chatVars, writeReqs, children, runningProcesses, kills, crashed>>

TermInit == AutoIdle /\ ChatIdle /\ TermIdle /\ WriteIdle

TermNext ==
    \/ \E c \in TermCommands, p \in TermProjects : TerminalRun(c, p)
    \/ \E i \in 1..MaxRuns : SettleTimer(i)
    \/ \E i \in 1..MaxRuns : ChildError(i)
    \/ \E i \in 1..MaxRuns : ProcessExits(i)
    \/ \E i \in 1..MaxRuns : ChildExit(i)
    \/ \E i \in 1..MaxRuns : CliReturn(i)
    \/ \E pid \in KillPids : KillRequest(pid)
    \/ \E k \in 1..MaxKills : KillReturn(k)

TermSpec == TermInit /\ [][TermNext]_vars

\* the terminal endpoints with the two preview endpoints
PreviewNext ==
    \/ TermNext
    \/ \E p \in TermProjects : HostPreview(p)
    \/ \E p \in TermProjects : StopPreview(p)

PreviewSpec == TermInit /\ [][PreviewNext]_vars

(***************************************************************************)
(* The chat endpoint (lines 405-725): the expressions applied to the       *)
(* prompt and to the reply.                                                *)
(***************************************************************************)
\* the extensions a name may end in, one token each
ExtTok == {".py", ".go", ".txt", ".js", ".java"}

\* [a-zA-Z0-9_\-\/\.]
NameTok == WordTok \cup ExtTok

\* the letters of a token in lower case (flag i, toLowerCase)
Lower(tok) ==
    CASE tok = "Create" -> "create"
      [] tok = "Delete" -> "delete"
      [] tok = "Show"   -> "show"
      [] tok = "FILE"   -> "file"
      [] OTHER          -> tok

\* the search texts of the chat handler that occur inside a token, in lower case
PromptKeywordsIn(tok) ==
    CASE Lower(tok) = "create"   -> {"create"}
      [] Lower(tok) = "recreate" -> {"create"}
      [] Lower(tok) = "file"     -> {"file"}
      [] Lower(tok) = "profile"  -> {"file"}
      [] Lower(tok) = "edit"     -> {"edit"}
      [] Lower(tok) = "fix"      -> {"fix"}
      [] Lower(tok) = "prefix"   -> {"fix"}
      [] Lower(tok) = "error"    -> {"error"}
      [] Lower(tok) = "run"      -> {"run"}
      [] Lower(tok) = "test"     -> {"test"}
      [] Lower(tok) = "make"     -> {"make"}
      [] Lower(tok) = "write"    -> {"write"}
      [] Lower(tok) = "update"   -> {"update"}
      [] Lower(tok) = "add"      -> {"add"}
      [] OTHER                   -> {}

\* prompt.toLowerCase().includes(text)
PromptIncludes(p, text) == \E i \in 1..Len(p) : text \in PromptKeywordsIn(p[i])

\* a marker token is a word and a colon
RECURSIVE Expand(_)
Expand(t) ==
    IF t = <<>> THEN <<>>
    ELSE (IF Head(t) = "FILE:" THEN <<"FILE", ":">>
          ELSE IF Head(t) = "file:" THEN <<"file", ":">>
          ELSE IF Head(t) = "EXPLANATION:" THEN <<"EXPLANATION", ":">>
          ELSE IF Head(t) = "explanation:" THEN <<"explanation", ":">>
          ELSE <<Head(t)>>) \o Expand(Tail(t))

\* the same text with its markers as one token again
RECURSIVE Collapse(_)
Collapse(t) ==
    IF Len(t) < 2 THEN t
    ELSE IF t[2] = ":" /\ t[1] \in {"FILE", "file", "EXPLANATION", "explanation"}
    THEN <<(CASE t[1] = "FILE" -> "FILE:"
              [] t[1] = "file" -> "file:"
              [] t[1] = "EXPLANATION" -> "EXPLANATION:"
              [] OTHER -> "explanation:")>> \o Collapse(SubSeq(t, 3, Len(t)))
    ELSE <<Head(t)>> \o Collapse(Tail(t))

\* the first result of a sequence of attempts that matched
RECURSIVE FirstOk(_)
FirstOk(rs) ==
    IF rs = <<>> THEN NoMatch
    ELSE IF Head(rs).ok THEN Head(rs) ELSE FirstOk(Tail(rs))

\* (?:w1\s+)?(?:w2\s+)?...: the positions the rest of an expression is tried
\* at, in the order the engine tries them (every optional group is greedy)
RECURSIVE OptStarts(_, _, _)
OptStarts(t, s, groups) ==
    IF groups = <<>> THEN <<s>>
    ELSE (IF s + 1 <= Len(t) /\ Lower(t[s]) \in Head(groups) /\ t[s + 1] \in WS
          THEN OptStarts(t, SkipWhile(t, s + 1, WS), Tail(groups))
          ELSE <<>>) \o OptStarts(t, s, Tail(groups))

\* ["']? in front of a name: the name starts behind a quote
PastQuote(t, s) == IF s <= Len(t) /\ t[s] = "Q" THEN s + 1 ELSE s

\* ([^\s"']+\.\w+) at s: the run of tokens up to white space or a quote, cut
\* behind the word tokens that follow its last extension
PromptName(t, s) ==
    LET e == SkipUntil(t, s, WS \cup {"Q"})
        X == {i \in (s + 1)..(e - 1) : t[i] \in ExtTok}
    IN  IF s > Len(t) \/ X = {} THEN NoMatch
        ELSE LET x == CHOOSE i \in X : \A j \in X : j <= i
                 j == SkipWhile(t, x + 1, WordTok)
             IN  [ok |-> TRUE, path |-> SubSeq(t, s, (IF j < e THEN j ELSE e) - 1)]

\* verb\s+ at i, the optional words, the optional quote, the name
PromptMatchAt(t, i, verbs, starts(_, _), name(_, _)) ==
    IF i + 1 <= Len(t) /\ Lower(t[i]) \in verbs /\ t[i + 1] \in WS
    THEN LET ss == starts(t, SkipWhile(t, i + 1, WS))
         IN  FirstOk([k \in 1..Len(ss) |-> name(t, PastQuote(t, ss[k]))])
    ELSE NoMatch

\* String.prototype.match without flag g: the leftmost match
PromptMatch(t, verbs, starts(_, _), name(_, _)) ==
    FirstOk([i \in 1..Len(t) |-> PromptMatchAt(t, i, verbs, starts, name)])

\* mutant: the optional word "file" is not in the delete expression
DeleteStartsNoFile(t, a) == OptStarts(t, a, << {"the"} >>)

\* (?:the\s+)?(?:file\s+)? of the delete expression
DeleteStarts(t, a) == OptStarts(t, a, << {"the"}, {"file"} >>)

\* prompt.match(/delete\s+(?:the\s+)?(?:file\s+)?["\']?([^\s"']+\.\w+)["\']?/i)
deleteMatch(p) == PromptMatch(p, {"delete"}, DeleteStarts, PromptName)

\* (?:the\s+)?(?:contents?\s+(?:of\s+)?)?(?:file\s+)?
RECURSIVE ReadTail(_, _, _)
ReadTail(t, ss, k) ==
    IF k > Len(ss) THEN <<>>
    ELSE LET s == ss[k]
             withContents ==
                 IF s + 1 <= Len(t) /\ Lower(t[s]) \in {"content", "contents"} /\ t[s + 1] \in WS
                 THEN LET os == OptStarts(t, SkipWhile(t, s + 1, WS), << {"of"} >>)
                      IN  (IF Len(os) = 2 THEN OptStarts(t, os[1], << {"file"} >>) ELSE <<>>)
                             \o OptStarts(t, os[Len(os)], << {"file"} >>)
                 ELSE <<>>
         IN  withContents \o OptStarts(t, s, << {"file"} >>) \o ReadTail(t, ss, k + 1)

ReadStarts(t, a) == ReadTail(t, OptStarts(t, a, << {"the"} >>), 1)

\* prompt.match(/(?:read|show|open|view|display)\s+(?:the\s+)?(?:contents?\s+(?:of\s+)?)?(?:file\s+)?["\']?([^\s"']+\.\w+)["\']?/i)
readMatch(p) ==
    PromptMatch(p, {"read", "show", "open", "view", "display"}, ReadStarts, PromptName)

\* the extensions of the list of line 701
TemplateExt == {".py", ".txt", ".js", ".java"}

\* ([a-zA-Z0-9_\-\.\/]+\.(html|...|yaml)) at s: the run of name tokens, cut
\* behind its last extension of the list
CreateName(t, s) ==
    LET e == SkipWhile(t, s, NameTok)
        X == {i \in (s + 1)..(e - 1) : t[i] \in TemplateExt}
    IN  IF s > Len(t) \/ X = {} THEN NoMatch
        ELSE [ok |-> TRUE, path |-> SubSeq(t, s, CHOOSE i \in X : \A j \in X : j <= i)]

SimpleCreateStarts(t, a) ==
    OptStarts(t, a, << {"a"}, {"an"}, {"new"}, {"file"}, {"called"}, {"named"} >>)

\* prompt.match(/create\s+(?:a\s+)?(?:an\s+)?(?:new\s+)?(?:file\s+)?(?:called\s+)?(?:named\s+)?["\']?(...)["\']?/i)
simpleCreateMatch(p) == PromptMatch(p, {"create"}, SimpleCreateStarts, CreateName)

\* ```[\w]*\n([\s\S]*?)``` with the fence at f
FenceBody(t, f) ==
    LET n == SkipWhile(t, f + 1, WordTok)
        e == SkipUntil(t, n + 1, {"FENCE"})
    IN  IF /\ f <= Len(t)
           /\ t[f] = "FENCE"
           /\ n <= Len(t)
           /\ t[n] = "NL"
           /\ e <= Len(t)
        THEN [ok |-> TRUE, content |-> SubSeq(t, n + 1, e - 1), end |-> e + 1]
        ELSE NoMatch

\* ([a-zA-Z0-9_\-\/\.]+\.[a-zA-Z0-9]+) at s, followed by a token outside the
\* class: the whole run of name tokens, with an extension behind its first token
AltName(t, s) ==
    LET e == SkipWhile(t, s, NameTok)
    IN  IF s <= Len(t) /\ \E i \in (s + 1)..(e - 1) : t[i] \in ExtTok
        THEN [ok |-> TRUE, path |-> SubSeq(t, s, e - 1), end |-> e]
        ELSE NoMatch

\* the name at s, white space ending in a line break, the fenced block
BareBlock(t, s) ==
    LET nm == AltName(t, s)
    IN  IF ~nm.ok THEN NoMatch
        ELSE LET f == SkipWhile(t, nm.end, WS)
                 b == FenceBody(t, f)
             IN  IF f > nm.end /\ t[f - 1] = "NL" /\ b.ok
                 THEN [ok |-> TRUE, path |-> nm.path, content |-> b.content, end |-> b.end]
                 ELSE NoMatch

\* altRegex1 with the match starting at i: (?:^|\n) is the start of the text
\* or a line break
AltMatchAt(t, i) ==
    FirstOk((IF i = 1 THEN <<BareBlock(t, 1)>> ELSE <<>>)
               \o (IF t[i] = "NL" THEN <<BareBlock(t, i + 1)>> ELSE <<>>))

\* \s*[:\n]+\s* is all there is from a to b - 1
Separates(t, a, b) ==
    \E x \in a..(b - 1), y \in a..(b - 1) :
        /\ x <= y
        /\ \A q \in a..(x - 1) : t[q] \in WS
        /\ \A q \in x..y : t[q] \in {":", "NL"}
        /\ \A q \in (y + 1)..(b - 1) : t[q] \in WS

\* the name at s, the optional quote, the separator, the fenced block
VerbBlock(t, s) ==
    LET nm == AltName(t, s)
    IN  IF ~nm.ok THEN NoMatch
        ELSE LET k == PastQuote(t, nm.end)
                 f == SkipWhile(t, k, WS \cup {":"})
                 b == FenceBody(t, f)
             IN  IF Separates(t, k, f) /\ b.ok
                 THEN [ok |-> TRUE, path |-> nm.path, content |-> b.content, end |-> b.end]
                 ELSE NoMatch

CreateStarts(t, a) == OptStarts(t, a, << {"a"}, {"file"}, {"called"} >>)

\* createRegex with the match starting at i
VerbMatchAt(t, i) ==
    IF i + 1 <= Len(t) /\ Lower(t[i]) \in {"create", "update", "write", "make"} /\ t[i + 1] \in WS
    THEN LET ss == CreateStarts(t, SkipWhile(t, i + 1, WS))
         IN  FirstOk([k \in 1..Len(ss) |-> VerbBlock(t, PastQuote(t, ss[k]))])
    ELSE NoMatch

\* the successive results of altRegex1.exec(text), lastIndex starting at i
RECURSIVE AltRegexExec(_, _)
AltRegexExec(t, i) ==
    IF i > Len(t) THEN <<>>
    ELSE LET r == AltMatchAt(t, i)
         IN  IF r.ok THEN <<r>> \o AltRegexExec(t, r.end)
             ELSE AltRegexExec(t, i + 1)

\* the successive results of createRegex.exec(text), lastIndex starting at i
RECURSIVE CreateRegexExec(_, _)
CreateRegexExec(t, i) ==
    IF i > Len(t) THEN <<>>
    ELSE LET r == VerbMatchAt(t, i)
         IN  IF r.ok THEN <<r>> \o CreateRegexExec(t, r.end)
             ELSE CreateRegexExec(t, i + 1)

\* const filepath = match[1].trim(); const content = match[2].trim()
PlainEditOf(mt) == [filepath |-> Collapse(Trim(mt.path)), content |-> Collapse(Trim(mt.content))]

\* if (filepath && content): the edits that are pushed
Pushed(es) == SelectSeq(es, LAMBDA e : e.filepath # <<>> /\ e.content # <<>>)

\* the edits of the matches of fileRegex, and of the two other expressions
MatchEdits(ms) == [i \in 1..Len(ms) |-> EditOf(ms[i])]
PlainEdits(ms) == [i \in 1..Len(ms) |-> PlainEditOf(ms[i])]

\* files after the loop of lines 638-644
PrimaryEdits(t) == Pushed(MatchEdits(FileMatches(t)))

\* files after the loop of lines 650-656 (a name has no blank in it and has a dot)
AltEdits(t) == Pushed(PlainEdits(AltRegexExec(Expand(t), 1)))

\* files after the loop of lines 662-668
VerbEdits(t) == Pushed(PlainEdits(CreateRegexExec(Expand(t), 1)))

\* mutant: the second and the third loop run although files is not empty
FirstFilledMixes(prim, alt, verb, fileOp) ==
    IF fileOp THEN prim \o alt \o verb ELSE prim

\* mutant: the second and the third loop run whatever the prompt says
FirstFilledAnyPrompt(prim, alt, verb, fileOp) ==
    IF prim # <<>> THEN prim
    ELSE IF alt # <<>> THEN alt
    ELSE verb

\* the second and the third loop run while files is empty and isFileOperation holds
FirstFilled(prim, alt, verb, fileOp) ==
    IF prim # <<>> \/ ~fileOp THEN prim
    ELSE IF alt # <<>> THEN alt
    ELSE verb

\* const files of the chat handler once the three loops are over
ChatFiles(t, fileOp) == FirstFilled(PrimaryEdits(t), AltEdits(t), VerbEdits(t), fileOp)

(***************************************************************************)
(* The handler of POST /api/ai/chat.                                       *)
(***************************************************************************)
HistorySlice == 5       \* chatHistory.slice(-5)
HistoryChars == 500     \* h.ai.substring(0, 500)
ListedFiles == 30       \* projectFiles.slice(0, 30)
HistoryRows == 50       \* LIMIT 50 of saveChatHistory

\* the prompts a chat turn may carry (<<>> when absent)
PromptHello == <<"hello">>
PromptCreate == <<"Create", "SP", "app", ".py">>
PromptCreateGo == <<"create", "SP", "m", ".go">>
PromptDelete == <<"delete", "SP", "the", "SP", "file", "SP", "foo", ".txt">>
PromptDeleteApp == <<"delete", "SP", "app", ".py">>
PromptShow == <<"show", "SP", "app", ".py">>
PromptFix == <<"fix", "SP", "the", "SP", "error">>

\* prompts in which more than one phrasing occurs
PromptShowDelete ==
    <<"show", "SP", "app", ".py", "SP", "delete", "SP", "m", ".go">>
PromptFixDelete ==
    <<"fix", "SP", "the", "SP", "error", "SP", "delete", "SP", "app", ".py">>
PromptFixShow == <<"fix", "SP", "error", "SP", "show", "SP", "app", ".py">>
PromptCreateShow == <<"create", "SP", "m", ".go", "SP", "show", "SP", "app", ".py">>
PromptFixCreate == <<"fix", "SP", "error", "SP", "create", "SP", "app", ".py">>

MixedPrompts ==
    {PromptShowDelete, PromptFixDelete, PromptFixShow, PromptCreateShow, PromptFixCreate}

ChatPrompts ==
    {<<>>, PromptHello, PromptCreate, PromptCreateGo, PromptDelete, PromptDeleteApp,
     PromptShow, PromptFix} \cup MixedPrompts

\* what callHF may return to the chat handler
ReplyVerb ==
    <<"create", "SP", "a", "SP", "file", "SP", "Q", "m", ".go", "Q", ":", "NL",
      "FENCE", "NL", "v", "FENCE">>

\* replies made of FILE: blocks: the path as written, the word behind the
\* fence, the lines between the fences, and the path and the content a reader
\* of the block takes it to carry
BlockShapes ==
    { [path |-> <<"app", ".py">>, lang |-> <<"py">>, body |-> <<"w", "NL">>,
       filepath |-> <<"app", ".py">>, content |-> <<"w">>],
      [path |-> <<"Q", "a", ".txt", "Q">>, lang |-> <<>>, body |-> <<"NL", "v", "SP", "w">>,
       filepath |-> <<"a", ".txt">>, content |-> <<"v", "SP", "w">>],
      [path |-> <<"app", ".py", "SP">>, lang |-> <<>>, body |-> <<"v">>,
       filepath |-> <<"app", ".py">>, content |-> <<"v">>],
      [path |-> <<"m", ".go">>, lang |-> <<>>, body |-> <<"NL">>,
       filepath |-> <<"m", ".go">>, content |-> <<>>] }

BlockSeqs == UNION {[1..n -> BlockShapes] : n \in 0..MaxBlocks}

\* 'FILE: <path>' on a line of its own, the fence, the body, the fence
BlockText(b) ==
    <<"FILE:", "SP">> \o b.path \o <<"NL", "FENCE">> \o b.lang \o <<"NL">> \o b.body
        \o <<"FENCE", "NL">>

RECURSIVE BlocksText(_)
BlocksText(bs) == IF bs = <<>> THEN <<>> ELSE BlockText(Head(bs)) \o BlocksText(Tail(bs))

\* a line of prose and the blocks
BlockReply(bs) == <<"w", "NL">> \o BlocksText(bs)

BlockReplies == {BlockReply(bs) : bs \in BlockSeqs}

\* malformed replies: a fence that is never closed, a marker without a path
ReplyUnclosed == <<"FILE:", "SP", "app", ".py", "NL", "FENCE", "NL", "w">>

ReplyNoPath == <<"FILE:", "NL", "FENCE", "NL", "w", "NL", "FENCE">>

\* replies in which two of the three expressions find a block each
ReplyPrimaryAndBare ==
    <<"FILE:", "SP", "app", ".py", "NL", "FENCE", "NL", "w", "NL", "FENCE", "NL",
      "m", ".go", "NL", "FENCE", "NL", "v", "NL", "FENCE">>

ReplyBareAndVerb ==
    <<"app", ".py", "NL", "FENCE", "NL", "w", "NL", "FENCE", "NL",
      "create", "SP", "m", ".go", ":", "NL", "FENCE", "NL", "v", "NL", "FENCE">>

OddReplies == {ReplyUnclosed, ReplyNoPath, ReplyPrimaryAndBare, ReplyBareAndVerb}

ChatReplies == AiReplies \cup {ReplyVerb} \cup BlockReplies \cup OddReplies

\* the rows of chat_history a project may hold when the request arrives
Turn(i) == [user |-> PromptHello, ai |-> [j \in 1..i |-> "w"]]
ChatHistories == {[i \in 1..n |-> Turn(i)] : n \in {0, 1, 6}}

\* const isFixCommand
isFixCommand(p) ==
    /\ PromptIncludes(p, "fix")
    /\ \/ PromptIncludes(p, "error")
       \/ PromptIncludes(p, "run")
       \/ PromptIncludes(p, "execute")
       \/ PromptIncludes(p, "test")
       \/ PromptIncludes(p, "console")

\* const isFileOperation
isFileOperation(p) ==
    \E w \in {"create", "make", "write", "edit", "modify", "update", "add", "change",
              "fix", "implement", "build", "setup", "generate"} : PromptIncludes(p, w)

\* mutant: the first n elements are taken, slice(0, n)
LastNTakesFirst(s, n) == IF Len(s) <= n THEN s ELSE SubSeq(s, 1, n)

\* Array.prototype.slice(-n)
LastN(s, n) == IF Len(s) <= n THEN s ELSE SubSeq(s, Len(s) - n + 1, Len(s))

\* recentHistory.map(h => `User: ${h.user}\nAI: ${h.ai.substring(0, 500)}${...}`)
HistoryText(rows) ==
    [i \in 1..Len(LastN(rows, HistorySlice)) |->
        [user |-> LastN(rows, HistorySlice)[i].user,
         ai |-> Substring(LastN(rows, HistorySlice)[i].ai, HistoryChars),
         more |-> Len(LastN(rows, HistorySlice)[i].ai) > HistoryChars]]

\* db.loadChatHistory(project): no row without a project
loadChatHistory(p, rows) == IF p = "" THEN <<>> ELSE rows

\* db.saveChatHistory(project, user, ai): no row without a project; the last 50 are kept
saveChatHistory(p, rows, user, ai) ==
    IF p = "" THEN rows ELSE LastN(Append(rows, [user |-> user, ai |-> ai]), HistoryRows)

\* files.map(f => `\`${f.filepath}\``).join(', ')
RECURSIVE FilesList(_)
FilesList(fs) ==
    IF fs = <<>> THEN <<>>
    ELSE IF Len(fs) = 1 THEN fs[1].filepath
    ELSE fs[1].filepath \o <<",", "SP">> \o FilesList(Tail(fs))

CountTok(n) == CASE n = 1 -> "1" [] n = 2 -> "2" [] OTHER -> "many"

\* let responseText (lines 674-680)
ResponseText(expl, fs) ==
    IF expl # <<>>
    THEN expl \o <<"NL", "NL", "Created/Updated", CountTok(Len(fs)), "file(s):">> \o FilesList(fs)
    ELSE <<"Created/Updated", CountTok(Len(fs)), "file(s):">> \o FilesList(fs)
            \o <<"NL", "NL", "The files have been written to your project.">>

\* generateFileTemplate(filepath, ext, prompt): a starter text chosen by ext
generateFileTemplate(filepath) == <<"template", filepath[Len(filepath)]>>

\* mutant: an answer with several files carries the first of them only
AnswerFirstOnly(text, fs, expl, sc) ==
    IF Len(fs) >= 1
    THEN [status |-> 200, response |-> ResponseText(expl, fs), action |-> "write_file",
          filepath |-> fs[1].filepath, content |-> fs[1].content]
    ELSE IF sc.ok /\ ~Includes(text, "FENCE")
    THEN [status |-> 200,
          response |-> <<"Created">> \o sc.path \o <<"with a starter template">>,
          action |-> "write_file", filepath |-> sc.path,
          content |-> generateFileTemplate(sc.path)]
    ELSE [status |-> 200, response |-> text]

\* lines 671-719: files, explanation and simpleCreateMatch decide the answer
Answer(text, fs, expl, sc) ==
    IF Len(fs) = 1
    THEN [status |-> 200, response |-> ResponseText(expl, fs), action |-> "write_file",
          filepath |-> fs[1].filepath, content |-> fs[1].content]
    ELSE IF Len(fs) > 1
    THEN [status |-> 200, response |-> ResponseText(expl, fs),
          action |-> "write_multiple_files", files |-> fs]
    ELSE IF sc.ok /\ ~Includes(text, "FENCE")
    THEN [status |-> 200,
          response |-> <<"Created">> \o sc.path \o <<"with a starter template">>,
          action |-> "write_file", filepath |-> sc.path,
          content |-> generateFileTemplate(sc.path)]
    ELSE [status |-> 200, response |-> text]

\* what the handler answers once callHF has returned text (lines 625-719)
ChatOutcome(p, text) ==
    Answer(text, ChatFiles(text, isFileOperation(p)), ExplanationOf(text),
           simpleCreateMatch(p))

\* the answers of the replies above, worked out once
ChatOutcomes == [p \in ChatPrompts \ {<<>>} |-> [t \in ChatReplies |-> ChatOutcome(p, t)]]

\* catch (err): 'HF_TOKEN missing. Set env variable.' or 'AI error: ' + err.message
ChatErrorResponse(msg) ==
    IF msg = "HF_TOKEN missing"
    THEN [status |-> 500, response |-> <<"HF_TOKEN missing. Set env variable.">>]
    ELSE [status |-> 500, response |-> <<"AI error: ", msg>>]

\* what callHF may throw: no token, or a status that is not ok
HFErrors == {"HF_TOKEN missing", "HF error 503"}

\* lines 506-623 once contextInfo is complete: the prompt is built, an image is
\* put into the options, and callHF is called.  isCreateRequest of line 616 is
\* declared nowhere, so reading it throws a ReferenceError the catch block answers.
ChatCallHF(ctx) ==
    /\ chatCtx' = ctx
    /\ IF chatReq.image
       THEN /\ chatResponse' = ChatErrorResponse("isCreateRequest is not defined")
            /\ cpc' = "done"
            /\ UNCHANGED chatCalls
       ELSE /\ chatCalls' = Append(chatCalls,
                   [fn |-> "callHF", fileOp |-> isFileOperation(chatReq.prompt),
                    prompt |-> chatReq.prompt, context |-> ctx])
            /\ cpc' = "hf_wait"
            /\ UNCHANGED chatResponse

\* mutant: the read phrasing is looked for before the delete phrasing
ChatStartReadFirst(p, proj, img) ==
    /\ cpc = "idle"
    /\ chatReq' = [prompt |-> p, project |-> proj, image |-> img]
    /\ IF p = <<>>
       THEN /\ chatResponse' = [status |-> 400, response |-> <<"Prompt required">>]
            /\ cpc' = "done"
            /\ UNCHANGED chatCalls
       ELSE IF /\ proj = ""
               /\ \/ PromptIncludes(p, "create")
                  \/ PromptIncludes(p, "file")
                  \/ PromptIncludes(p, "edit")
       THEN /\ chatResponse' = [status |-> 200,
                                response |-> <<"Please create or select a project first">>]
            /\ cpc' = "done"
            /\ UNCHANGED chatCalls
       ELSE IF readMatch(p).ok
       THEN /\ chatResponse' = [status |-> 200,
                                response |-> <<"Reading">> \o readMatch(p).path,
                                action |-> "read_file", filepath |-> readMatch(p).path]
            /\ cpc' = "done"
            /\ UNCHANGED chatCalls
       ELSE IF deleteMatch(p).ok
       THEN /\ chatResponse' = [status |-> 200,
                                response |-> <<"Deleted">> \o deleteMatch(p).path,
                                action |-> "delete_file", filepath |-> deleteMatch(p).path]
            /\ cpc' = "done"
            /\ UNCHANGED chatCalls
       ELSE IF isFixCommand(p) /\ proj # ""
       THEN /\ chatResponse' = [status |-> 200, response |-> <<"Starting auto-fix mode">>,
                                action |-> "auto_fix", project |-> proj]
            /\ cpc' = "done"
            /\ UNCHANGED chatCalls
       ELSE /\ chatCalls' = Append(chatCalls, [fn |-> "loadChatHistory", project |-> proj])
            /\ cpc' = "history_wait"
            /\ UNCHANGED chatResponse
    /\ UNCHANGED <<autoVars, termVars, writeReqs, client, chatHistory, chatCtx, chatAi>>

\* mutant: the read intent is answered after the chat history was loaded
ChatStartReadLoadsHistory(p, proj, img) ==
    /\ cpc = "idle"
    /\ chatReq' = [prompt |-> p, project |-> proj, image |-> img]
    /\ IF p = <<>>
       THEN /\ chatResponse' = [status |-> 400, response |-> <<"Prompt required">>]
            /\ cpc' = "done"
            /\ UNCHANGED chatCalls
       ELSE IF /\ proj = ""
               /\ \/ PromptIncludes(p, "create")
                  \/ PromptIncludes(p, "file")
                  \/ PromptIncludes(p, "edit")
       THEN /\ chatResponse' = [status |-> 200,
                                response |-> <<"Please create or select a project first">>]
            /\ cpc' = "done"
            /\ UNCHANGED chatCalls
       ELSE IF deleteMatch(p).ok
       THEN /\ chatResponse' = [status |-> 200,
                                response |-> <<"Deleted">> \o deleteMatch(p).path,
                                action |-> "delete_file", filepath |-> deleteMatch(p).path]
            /\ cpc' = "done"
            /\ UNCHANGED chatCalls
       ELSE IF readMatch(p).ok
       THEN /\ chatResponse' = [status |-> 200,
                                response |-> <<"Reading">> \o readMatch(p).path,
                                action |-> "read_file", filepath |-> readMatch(p).path]
            /\ cpc' = "done"
            /\ chatCalls' = Append(chatCalls, [fn |-> "loadChatHistory", project |-> proj])
       ELSE IF isFixCommand(p) /\ proj # ""
       THEN /\ chatResponse' = [status |-> 200, response |-> <<"Starting auto-fix mode">>,
                                action |-> "auto_fix", project |-> proj]
            /\ cpc' = "done"
            /\ UNCHANGED chatCalls
       ELSE /\ chatCalls' = Append(chatCalls, [fn |-> "loadChatHistory", project |-> proj])
            /\ cpc' = "history_wait"
            /\ UNCHANGED chatResponse
    /\ UNCHANGED <<autoVars, termVars, writeReqs, client, chatHistory, chatCtx, chatAi>>

\* lines 406-481: the answers that need no provider, else await db.loadChatHistory(project)
ChatStart(p, proj, img) ==
    /\ cpc = "idle"
    /\ chatReq' = [prompt |-> p, project |-> proj, image |-> img]
    /\ IF p = <<>>
       THEN /\ chatResponse' = [status |-> 400, response |-> <<"Prompt required">>]
            /\ cpc' = "done"
            /\ UNCHANGED chatCalls
       ELSE IF /\ proj = ""
               /\ \/ PromptIncludes(p, "create")
                  \/ PromptIncludes(p, "file")
                  \/ PromptIncludes(p, "edit")
       THEN /\ chatResponse' = [status |-> 200,
                                response |-> <<"Please create or select a project first">>]
            /\ cpc' = "done"
            /\ UNCHANGED chatCalls
       ELSE IF deleteMatch(p).ok
       THEN /\ chatResponse' = [status |-> 200,
                                response |-> <<"Deleted">> \o deleteMatch(p).path,
                                action |-> "delete_file", filepath |-> deleteMatch(p).path]
            /\ cpc' = "done"
            /\ UNCHANGED chatCalls
       ELSE IF readMatch(p).ok
       THEN /\ chatResponse' = [status |-> 200,
                                response |-> <<"Reading">> \o readMatch(p).path,
                                action |-> "read_file", filepath |-> readMatch(p).path]
            /\ cpc' = "done"
            /\ UNCHANGED chatCalls
       ELSE IF isFixCommand(p) /\ proj # ""
       THEN /\ chatResponse' = [status |-> 200, response |-> <<"Starting auto-fix mode">>,
                                action |-> "auto_fix", project |-> proj]
            /\ cpc' = "done"
            /\ UNCHANGED chatCalls
       ELSE /\ chatCalls' = Append(chatCalls, [fn |-> "loadChatHistory", project |-> proj])
            /\ cpc' = "history_wait"
            /\ UNCHANGED chatResponse
    /\ UNCHANGED <<autoVars, termVars, writeReqs, client, chatHistory, chatCtx, chatAi>>

\* lines 481-492: the history is put into contextInfo; with a project,
\* await db.getAllProjectFiles(project)
ChatHistoryReturn ==
    /\ cpc = "history_wait"
    /\ LET ctx == [NoContext EXCEPT
                     !.history = HistoryText(loadChatHistory(chatReq.project, chatHistory))]
       IN  IF chatReq.project # ""
           THEN /\ chatCtx' = ctx
                /\ chatCalls' = Append(chatCalls,
                       [fn |-> "getAllProjectFiles", project |-> chatReq.project])
                /\ cpc' = "list_wait"
                /\ UNCHANGED chatResponse
           ELSE ChatCallHF(ctx)
    /\ UNCHANGED <<autoVars, termVars, writeReqs, client, chatReq, chatHistory, chatAi>>

\* db.loadChatHistory throws: the catch block
ChatHistoryThrow ==
    /\ cpc = "history_wait"
    /\ chatResponse' = ChatErrorResponse("db error")
    /\ cpc' = "done"
    /\ UNCHANGED <<autoVars, termVars, writeReqs, client, chatReq, chatHistory, chatCalls, chatCtx, chatAi>>

\* lines 492-494: the first 30 names are put into contextInfo
ChatListReturn ==
    /\ cpc = "list_wait"
    /\ ChatCallHF([chatCtx EXCEPT
                     !.files = Substring(getAllProjectFiles(files), ListedFiles),
                     !.more = Len(getAllProjectFiles(files)) > ListedFiles])
    /\ UNCHANGED <<autoVars, termVars, writeReqs, client, chatReq, chatHistory, chatAi>>

\* lines 495-497: db.getAllProjectFiles throws, which is logged and nothing more
ChatListThrow ==
    /\ cpc = "list_wait"
    /\ ChatCallHF(chatCtx)
    /\ UNCHANGED <<autoVars, termVars, writeReqs, client, chatReq, chatHistory, chatAi>>

\* what db.saveChatHistory is called with (lines 683, 691, 708, 718)
SaveCall(out) ==
    [fn |-> "saveChatHistory", project |-> chatReq.project, user |-> chatReq.prompt,
     ai |-> out.response]

\* lines 623-718: callHF returns text, the text is parsed, and the turn is saved
ChatHFReturn(text) ==
    /\ cpc = "hf_wait"
    /\ chatAi' = text
    /\ chatCalls' = Append(chatCalls, SaveCall(ChatOutcomes[chatReq.prompt][text]))
    /\ cpc' = "save_wait"
    /\ UNCHANGED <<autoVars, termVars, writeReqs, client, chatReq, chatHistory, chatResponse, chatCtx>>

\* mutant: a failed provider call is made once more
ChatHFThrowRetries(msg) ==
    /\ cpc = "hf_wait"
    /\ Len(chatCalls) < 4
    /\ chatCalls' = Append(chatCalls, chatCalls[Len(chatCalls)])
    /\ UNCHANGED <<autoVars, termVars, writeReqs, client, cpc, chatReq, chatHistory, chatResponse, chatCtx, chatAi>>

\* callHF throws: the catch block (lines 720-724)
ChatHFThrow(msg) ==
    /\ cpc = "hf_wait"
    /\ chatResponse' = ChatErrorResponse(msg)
    /\ cpc' = "done"
    /\ UNCHANGED <<autoVars, termVars, writeReqs, client, chatReq, chatHistory, chatCalls, chatCtx, chatAi>>

\* the row is stored and the answer is sent
Reply(out) ==
    /\ chatHistory' = saveChatHistory(chatReq.project, chatHistory, chatReq.prompt,
                                      out.response)
    /\ chatResponse' = out

\* db.saveChatHistory returns
ChatSaveReturn ==
    /\ cpc = "save_wait"
    /\ Reply(ChatOutcomes[chatReq.prompt][chatAi])
    /\ cpc' = "done"
    /\ UNCHANGED <<autoVars, termVars, writeReqs, client, chatReq, chatCalls, chatCtx, chatAi>>

\* db.saveChatHistory throws: the catch block
ChatSaveThrow ==
    /\ cpc = "save_wait"
    /\ chatResponse' = ChatErrorResponse("db error")
    /\ cpc' = "done"
    /\ UNCHANGED <<autoVars, termVars, writeReqs, client, chatReq, chatHistory, chatCalls, chatCtx, chatAi>>

(***************************************************************************)
(* The page's side of a chat turn: API.chat of src/script.js, lines        *)
(* 148-276, from the answer of POST /api/ai/chat on.  The page does what   *)
(* the action of the answer names, through the file endpoints of the       *)
(* server (lines 105-135 and 329-341), which call db.readFile,             *)
(* db.writeFile and db.deleteFile.                                         *)
(***************************************************************************)
\* db.deleteFile(project, filepath): the row of the path and the rows under
\* the path taken as a folder
deleteFile(store, filepath) ==
    LET gone(f) == \/ f = filepath
                   \/ /\ Len(f) > Len(filepath) + 1
                      /\ SubSeq(f, 1, Len(filepath)) = filepath
                      /\ f[Len(filepath) + 1] = "/"
    IN  [f \in {g \in DOMAIN store : ~gone(g)} |-> store[f]]

\* const data = await res.json() and the tests of data.action, lines 167-272.
\* The status of the answer is not looked at.
ClientReceive ==
    /\ cpc = "done"
    /\ client.pc = "idle"
    /\ LET data == chatResponse
           action == IF "action" \in DOMAIN data THEN data.action ELSE ""
       IN  client' =
             IF action = "read_file" THEN [client EXCEPT !.pc = "read"]
             ELSE IF action = "write_file"
             THEN [client EXCEPT !.pc = "write",
                                 !.todo = <<[filepath |-> data.filepath,
                                             content |-> data.content]>>]
             ELSE IF action = "write_multiple_files"
             THEN [client EXCEPT !.pc = "write", !.todo = data.files]
             ELSE IF action = "delete_file" THEN [client EXCEPT !.pc = "delete"]
             ELSE IF action = "auto_fix" THEN [client EXCEPT !.pc = "auto_fix"]
             ELSE [client EXCEPT !.pc = "done", !.result = data]
    /\ UNCHANGED <<autoVars, termVars, writeReqs, handlerVars>>

\* what API.chat returns once the files are sent, lines 190-193 and 211-215
WrittenResult(data) ==
    IF data.action = "write_file"
    THEN [response |-> <<"Successfully updated">> \o data.filepath, fileWritten |-> TRUE]
    ELSE [response |-> data.response, filesWritten |-> TRUE]

\* await API.writeFile(state.currentProject, file.filepath, file.content): the
\* request POST /api/file/:project, which stores the file or answers 500
\* (db.writeFile throws 'Project not found' without a project); API.writeFile
\* returns the answer, or null, and throws in no case
ClientWrite(ok) ==
    /\ client.pc = "write"
    /\ client.todo # <<>>
    /\ ok => chatReq.project # ""
    /\ files' = IF ok THEN writeFile(files, Head(client.todo).filepath,
                                     Head(client.todo).content)
                ELSE files
    /\ client' = IF Len(client.todo) > 1
                 THEN [client EXCEPT !.todo = Tail(@), !.written = Append(@, ok)]
                 ELSE [client EXCEPT !.todo = <<>>, !.written = Append(@, ok),
                                     !.pc = "done", !.result = WrittenResult(chatResponse)]
    /\ UNCHANGED <<autoButFiles, termVars, writeReqs, handlerVars>>

\* await API.deleteFile(state.currentProject, data.filepath): the request
\* DELETE /api/file/:project; lines 221-232
ClientDelete(ok) ==
    /\ client.pc = "delete"
    /\ ok => chatReq.project # ""
    /\ files' = IF ok THEN deleteFile(files, chatResponse.filepath) ELSE files
    /\ client' = [client EXCEPT
                    !.pc = "done", !.written = Append(@, ok),
                    !.result = [response |-> <<"Successfully deleted">>
                                                \o chatResponse.filepath,
                                fileDeleted |-> TRUE]]
    /\ UNCHANGED <<autoButFiles, termVars, writeReqs, handlerVars>>

\* await API.readFile(state.currentProject, data.filepath): the request
\* GET /api/file/:project, which answers the content or 500; lines 170-180
ClientRead(ok) ==
    /\ client.pc = "read"
    /\ ok => chatReq.project # "" /\ chatResponse.filepath \in DOMAIN files
    /\ client' = [client EXCEPT
                    !.pc = "done",
                    !.result = [response |-> <<"File content of">> \o chatResponse.filepath
                                    \o (IF ok THEN files[chatResponse.filepath]
                                        ELSE <<"undefined">>),
                                fileRead |-> TRUE]]
    /\ UNCHANGED <<autoVars, termVars, writeReqs, handlerVars>>

ChatInit ==
    /\ AutoQuiet
    /\ WriteIdle
    /\ client = NoClient
    /\ TermIdle
    /\ \E S \in Subsets(Range(FileUniverse), 1) : files = [f \in S |-> <<"w">>]
    /\ cpc = "idle"
    /\ chatReq = NoChatReq
    /\ chatHistory \in ChatHistories
    /\ chatResponse = NoResponse
    /\ chatCalls = <<>>
    /\ chatCtx = NoContext
    /\ chatAi = <<>>

ChatNext ==
    \/ \E p \in ChatPrompts, proj \in {"", "p"}, img \in BOOLEAN : ChatStart(p, proj, img)
    \/ ChatHistoryReturn
    \/ ChatHistoryThrow
    \/ ChatListReturn
    \/ ChatListThrow
    \/ \E text \in ChatReplies : ChatHFReturn(text)
    \/ \E msg \in HFErrors : ChatHFThrow(msg)
    \/ ChatSaveReturn
    \/ ChatSaveThrow
    \/ ClientReceive
    \/ \E ok \in BOOLEAN : ClientWrite(ok)
    \/ \E ok \in BOOLEAN : ClientDelete(ok)
    \/ \E ok \in BOOLEAN : ClientRead(ok)

ChatSpec == ChatInit /\ [][ChatNext]_vars

(***************************************************************************)
(* The file endpoint POST /api/file/:project (lines 120-135) and           *)
(* db.writeFile (src/database.js, lines 178-188), for requests handled     *)
(* concurrently: each await lets the other requests run.  The INSERT ...   *)
(* ON CONFLICT statement is one statement of the database, run at one      *)
(* moment between the call of pool.query and its return.                   *)
(***************************************************************************)
WriteProjects == {"p", "x"}     \* "p" exists, "x" does not
WritePaths == {<<>>, <<"app", ".py">>, <<"m", ".go">>}
WriteContents == {<<>>, <<"v">>, <<"x">>}

\* the number of statements the database has run for the requests
Committed == Cardinality({i \in 1..MaxWriters : writeReqs[i].at > 0})

\* lines 122-128: 400 without a path; content = body.content || '';
\* db.writeFile awaits getProjectId(projectName)
WriteRequest(i, proj, path, content) ==
    /\ writeReqs[i].pc = "idle"
    /\ writeReqs' =
          [writeReqs EXCEPT ![i] =
              IF path = <<>>
              THEN [@ EXCEPT !.pc = "done", !.project = proj,
                             !.res = [status |-> 400,
                                      error |-> "path query parameter required"]]
              ELSE [@ EXCEPT !.pc = "project", !.project = proj, !.filepath = path,
                             !.content = content]]
    /\ UNCHANGED <<autoVars, termVars, chatVars>>

\* getProjectId returns: `if (!projectId) throw new Error('Project not found')`,
\* which the catch block of the endpoint answers with 500; otherwise
\* pool.query(INSERT ...) is called
WriteProjectReturn(i) ==
    /\ writeReqs[i].pc = "project"
    /\ writeReqs' =
          [writeReqs EXCEPT ![i] =
              IF @.project = "p"
              THEN [@ EXCEPT !.pc = "upsert"]
              ELSE [@ EXCEPT !.pc = "done",
                             !.res = [status |-> 500,
                                      error |-> "Could not write file: Project not found"]]]
    /\ UNCHANGED <<autoVars, termVars, chatVars>>

\* mutant: INSERT ... ON CONFLICT (project_id, filepath) DO NOTHING
UpsertRunsDoNothing(i) ==
    /\ writeReqs[i].pc = "upsert"
    /\ files' = IF writeReqs[i].filepath \in DOMAIN files THEN files
                ELSE writeFile(files, writeReqs[i].filepath, writeReqs[i].content)
    /\ writeReqs' =
          [writeReqs EXCEPT ![i] =
              [@ EXCEPT !.pc = "answer", !.at = Committed + 1,
                        !.effect = IF writeReqs[i].filepath \in DOMAIN files
                                   THEN "update"
                                   ELSE "insert"]]
    /\ UNCHANGED <<autoButFiles, termVars, chatVars>>

\* the database runs the statement: a row is inserted when the table has none
\* for (project_id, filepath), and the row there is updated otherwise
UpsertRuns(i) ==
    /\ writeReqs[i].pc = "upsert"
    /\ files' = writeFile(files, writeReqs[i].filepath, writeReqs[i].content)
    /\ writeReqs' =
          [writeReqs EXCEPT ![i] =
              [@ EXCEPT !.pc = "answer", !.at = Committed + 1,
                        !.effect = IF writeReqs[i].filepath \in DOMAIN files
                                   THEN "update"
                                   ELSE "insert"]]
    /\ UNCHANGED <<autoButFiles, termVars, chatVars>>

\* pool.query rejects (the connection is lost): the catch block answers 500
UpsertFails(i) ==
    /\ writeReqs[i].pc = "upsert"
    /\ writeReqs' =
          [writeReqs EXCEPT ![i] =
              [@ EXCEPT !.pc = "done",
                        !.res = [status |-> 500,
                                 error |-> "Could not write file: db error"]]]
    /\ UNCHANGED <<autoVars, termVars, chatVars>>

\* pool.query returns: res.json({ ok: true })
WriteAnswer(i) ==
    /\ writeReqs[i].pc = "answer"
    /\ writeReqs' = [writeReqs EXCEPT ![i] =
                        [@ EXCEPT !.pc = "done", !.res = [status |-> 200, ok |-> TRUE]]]
    /\ UNCHANGED <<autoVars, termVars, chatVars>>

WriteInit ==
    /\ AutoQuiet
    /\ TermIdle
    /\ ChatIdle
    /\ WriteIdle
    /\ \E S \in Subsets(Range(FileUniverse), 1) : files = [f \in S |-> <<"w">>]

WriteNext ==
    \/ \E i \in 1..MaxWriters, proj \in WriteProjects, path \in WritePaths,
          content \in WriteContents : WriteRequest(i, proj, path, content)
    \/ \E i \in 1..MaxWriters : WriteProjectReturn(i)
    \/ \E i \in 1..MaxWriters : UpsertRuns(i)
    \/ \E i \in 1..MaxWriters : UpsertFails(i)
    \/ \E i \in 1..MaxWriters : WriteAnswer(i)

WriteSpec == WriteInit /\ [][WriteNext]_vars

(***************************************************************************)
(* The server as a whole.  A behaviour follows the requests of one         *)
(* endpoint: the auto-fix handler keeps its state in the content store,    *)
(* the terminal handlers keep theirs in the two maps, the chat handler     *)
(* keeps its in chat_history, and none reads what another writes.          *)
(***************************************************************************)
ServerInit == Init \/ TermInit \/ ChatInit

ServerNext ==
    \/ Next
    \/ (AutoIdle /\ ChatIdle /\ TermNext)
    \/ (pc = "idle" /\ TermIdle /\ ChatNext)

ServerSpec == ServerInit /\ [][ServerNext]_vars

\* exec calls its callback once the child has ended, and a child that was given
\* a timeout has ended when the timeout is over
RunnerFairSpec ==
    /\ ServerSpec
    /\ WF_vars(ExecReturn)
    /\ \A i \in 1..MaxRuns : WF_vars(AutoIdle /\ ChatIdle /\ CliReturn(i))

(***************************************************************************)
(* Properties of the auto-fix handler.                                     *)
(***************************************************************************)
Done == pc = "done"
Last(q) == q[Len(q)]
IsPrefix(a, b) == Len(a) <= Len(b) /\ SubSeq(b, 1, Len(a)) = a
HasHistory == "fixes" \in DOMAIN response
Actions(q) == [i \in 1..Len(q) |-> q[i].action]

\* the edits of a text that the loop hands to db.writeFile
ValidEdits(t) == SelectSeq(Edits(t), LAMBDA e : e.filepath # <<>> /\ e.content # <<>>)

\* C1: in one execution the command is run at most 5 times and callHF is
\* called at most 5 times, whatever the runs and the replies are.
C1_AtMostFiveAttempts == execCalls <= 5 /\ hfCalls <= 5

C1_Witness == Done /\ execCalls = 5 /\ hfCalls = 5

\* C2 as claimed: every terminal outcome (Success, Exhausted, Abandoned, abort)
\* returns a history of length at least 1.
C2_Original == Done /\ HasHistory => Len(response.fixes) >= 1

\* C2 as amended: a terminal outcome returns a non-empty history exactly when
\* the command was run at least once; Abandoned, and an abort before the first
\* run, return the empty history.
C2_NonEmptyAfterFirstRun ==
    Done /\ HasHistory => (Len(response.fixes) >= 1 <=> execCalls >= 1)

C2_Witness == Done /\ response.status = 500 /\ execCalls >= 1 /\ Len(response.fixes) >= 1

\* C3: records are only ever appended to the history, and the answer of every
\* terminal outcome carries the whole history in the order it was appended.
C3_FullOrderedHistory ==
    [][/\ IsPrefix(fixes, fixes')
       /\ (pc' = "done" /\ "fixes" \in DOMAIN response' => response'.fixes = fixes')]_vars

C3_Witness ==
    /\ Done
    /\ response.status = 500
    /\ Len(response.fixes) = 3
    /\ Actions(response.fixes) = <<"error_detected", "applied_fix", "error_detected">>

\* C4: when the first run reports no failure the history is one Success record
\* and neither callHF nor db.writeFile has been called.
C4_FirstRunSucceeds ==
    execCalls = 1 /\ pc # "exec_wait" /\ execResult.error = "" =>
        /\ Done
        /\ response.status = 200
        /\ response.success
        /\ Len(response.fixes) = 1
        /\ response.fixes[1].action = "success"
        /\ response.fixes[1].attempt = 1
        /\ hfCalls = 0
        /\ writeCalls = 0

C4_Witness == Done /\ execCalls = 1 /\ execResult.error = "" /\ Len(response.fixes) = 1

\* C5: once callHF has returned a text that yields no file edit, the handler
\* runs no command, calls callHF no more, writes no file, and its next answer
\* is unsuccessful with a history ending in no_fix_found.
C5_NoFixTerminates ==
    [][pc = "scan" /\ ValidEdits(aiResponse) = <<>> =>
          /\ execCalls' = execCalls
          /\ hfCalls' = hfCalls
          /\ writeCalls' = writeCalls
          /\ files' = files
          /\ pc' \in {"scan", "done"}
          /\ pc' = "done" =>
                /\ response'.status = 200
                /\ ~response'.success
                /\ Last(response'.fixes).action = "no_fix_found"
                /\ Last(response'.fixes).attempt = attempt]_vars

C5_Witness ==
    /\ Done
    /\ aiResponse = ReplyProse
    /\ execCalls = 3
    /\ Last(response.fixes).action = "no_fix_found"

\* C6: every execution reaches a terminal answer; the answer reports success
\* exactly when the last run of the command reported no failure, and
\* success = false whenever no run succeeded and no call threw.
LastRunOk == execCalls > 0 /\ execResult.error = ""

C6_TerminatesWithVerdict ==
    /\ <>Done
    /\ [](Done /\ response.status # 400 =>
            ((response.status = 200 /\ response.success) <=> LastRunOk))
    /\ [](Done /\ response.status = 200 /\ ~LastRunOk => ~response.success)

C6_Witness == Done /\ execCalls = 5 /\ response.status = 200 /\ ~response.success

\* C7 as claimed: after every applied_fix record, for attempts 1..5, the
\* command is run again before the handler answers.
C7_Original ==
    Done => \A i \in 1..Len(fixes) :
                fixes[i].action = "applied_fix" => execCalls >= fixes[i].attempt + 1

\* C7 as amended: after an applied_fix record of attempt 1..4 the command is
\* run again (the next record is that run's); an applied_fix record of attempt
\* 5 is the last record and the answer is the unsuccessful one.
C7_RerunAfterFix ==
    Done => \A i \in 1..Len(fixes) :
                fixes[i].action = "applied_fix" =>
                    IF fixes[i].attempt < 5
                    THEN /\ execCalls >= fixes[i].attempt + 1
                         /\ i < Len(fixes)
                         /\ fixes[i + 1].attempt = fixes[i].attempt + 1
                         /\ fixes[i + 1].action \in {"success", "error_detected"}
                    ELSE /\ i = Len(fixes)
                         /\ execCalls = 5
                         /\ response.status = 200
                         /\ ~response.success

C7_Witness ==
    /\ Done
    /\ Len(fixes) = 9
    /\ fixes[8].action = "applied_fix"
    /\ fixes[8].attempt = 4
    /\ fixes[9].action = "success"

\* C8: at most one call is in flight, and while a run of the command is in
\* flight every file the previous attempt recorded as fixed is in the content
\* store with the content of the edit.
C8_Sequential ==
    /\ Cardinality(inflight) <= 1
    /\ \A c \in inflight :
          c.op = "exec" /\ c.attempt > 1 =>
             /\ Last(fixes).action = "applied_fix"
             /\ Last(fixes).attempt = c.attempt - 1
             /\ \A f \in Range(Last(fixes).files) :
                   /\ f \in DOMAIN files
                   /\ \E i \in 1..Len(ValidEdits(aiResponse)) :
                         /\ ValidEdits(aiResponse)[i].filepath = f
                         /\ ValidEdits(aiResponse)[i].content = files[f]

C8_Witness ==
    /\ \E c \in inflight : c.op = "exec" /\ c.attempt = 3
    /\ Len(Last(fixes).files) = 2

\* C9: with no run command supplied and no .py, .go, .java or server .js file
\* in the project, nothing is run, asked or written, and the handler answers
\* right after the listing: success false, a message asking for a run command.
NoRuleMatches ==
    \A f \in DOMAIN files :
        /\ ~EndsWith(f, ".py")
        /\ ~EndsWith(f, ".go")
        /\ ~(EndsWith(f, ".js") /\ Includes(f, "server"))
        /\ ~EndsWith(f, ".java")

C9_Abandoned ==
    project # "" /\ runCommand = <<>> /\ NoRuleMatches =>
        /\ execCalls = 0 /\ hfCalls = 0 /\ writeCalls = 0
        /\ pc \in {"start", "list_wait", "determine", "done"}
        /\ Done /\ response.status # 500 =>
              /\ response.status = 200
              /\ ~response.success
              /\ response.message = "Could not determine how to run"
              /\ response.fixes = <<>>

C9_Witness ==
    /\ Done
    /\ runCommand = <<>>
    /\ projectFiles = << <<"a", ".txt">> >>
    /\ response.status = 200
    /\ response.fixes = <<>>

\* C10: a supplied command is used unchanged; otherwise the command follows
\* the first rule that matches the project's file names, Python before Go
\* before Node server before Java, and none when no rule matches; nothing has
\* been run, asked or written when the loop is entered.
Determined ==
    /\ pc \notin {"start", "list_wait", "determine"}
    /\ ~(Done /\ response.status \in {400, 500} /\ execCalls = 0)

C10_CommandByPriority ==
    LET S == Range(projectFiles)
        py == {f \in S : EndsWith(f, ".py")}
        go == {f \in S : EndsWith(f, ".go")}
        js == {f \in S : EndsWith(f, ".js") /\ Includes(f, "server")}
        java == {f \in S : EndsWith(f, ".java")}
    IN  /\ Determined =>
            IF runCommand # <<>> THEN command = runCommand
            ELSE IF py # {} THEN /\ SubSeq(command, 1, 2) = <<"py", "SP">>
                                 /\ SubSeq(command, 3, Len(command)) \in py
                                 /\ (\E f \in py : Includes2(f, "app", ".py")) =>
                                        Includes2(command, "app", ".py")
            ELSE IF go # {} THEN command = <<"go", "SP", "run", "SP", ".">>
            ELSE IF js # {} THEN command = <<"node", "SP", "server", ".js">>
            ELSE IF java # {} THEN command[1] = "javac"
            ELSE command = <<>>
        /\ pc = "loop" /\ attempt = 1 =>
              execCalls = 0 /\ hfCalls = 0 /\ writeCalls = 0 /\ inflight = {}

C10_Witness ==
    /\ pc = "loop"
    /\ attempt = 1
    /\ runCommand = <<>>
    /\ projectFiles = << <<"app", ".py">>, <<"m", ".go">> >>
    /\ command = <<"py", "SP", "app", ".py">>

\* the command of the scenario and the interpreter invocation the shims of
\* 1026-1028 and 1100-1102 turn it into
PythonApp == <<"python", "SP", "app", ".py">>
PyApp == <<"py", "SP", "app", ".py">>

OnlyAppAndRequirements ==
    /\ pc \notin {"idle", "start", "list_wait", "determine"}
    /\ runCommand = <<>>
    /\ projectFiles = << <<"app", ".py">>, <<"requirements", ".txt">> >>

\* C11: the run handler spawns 'python app.py' as the interpreter invocation
\* 'py app.py', and the command the auto-fix handler chooses for a project
\* holding only app.py and requirements.txt is that same invocation: the
\* image of 'python app.py' under the shim, 'py app.py'.
C11_ShimAndChosenCommand ==
    /\ \A i \in 1..Len(children) :
          children[i].command = PythonApp =>
              /\ children[i].kind = "cli"
              /\ children[i].cmd = PyApp
    /\ OnlyAppAndRequirements =>
          /\ command = PyApp
          /\ command = CliShim(PythonApp)

C11_Witness ==
    /\ OnlyAppAndRequirements
    /\ pc = "exec_wait"
    /\ attempt = 1
    /\ command = PyApp

\* C12: a callHF that throws is fatal to its request and is not retried.  In
\* the auto-fix handler the step that follows the failed call answers 500 with
\* the fixes recorded so far and makes no call of exec, callHF or db.writeFile;
\* in the chat handler it answers 500 and makes no call at all (no callHF, no
\* db.saveChatHistory) and the store and chat_history stay as they are; and a
\* request that has answered takes no further step.
C12_ProviderFailureIsFatal ==
    /\ [][(pc = "hf_wait" /\ pc' # "scan") =>
            /\ pc' = "done"
            /\ response' = [status |-> 500, error |-> "HF error", fixes |-> fixes]
            /\ inflight' = {}
            /\ UNCHANGED <<execCalls, hfCalls, writeCalls, files, fixes>>]_vars
    /\ [][(cpc = "hf_wait" /\ cpc' # "save_wait") =>
            /\ cpc' = "done"
            /\ chatResponse'.status = 500
            /\ UNCHANGED <<chatCalls, chatHistory, files, children>>]_vars
    /\ [][pc = "done" => UNCHANGED <<autoVars, children>>]_vars
    /\ [][cpc = "done" => UNCHANGED <<handlerVars, children>>]_vars
    /\ [][cpc = "done" /\ chatResponse.status = 500 => UNCHANGED files]_vars

\* a chat turn whose last call was callHF has answered with the provider's error
C12_Witness ==
    /\ cpc = "done"
    /\ chatResponse = ChatErrorResponse("HF error 503")
    /\ chatCalls # <<>>
    /\ chatCalls[Len(chatCalls)].fn = "callHF"
    /\ chatReq.project = "p"
    /\ chatHistory # <<>>

\* C13: a run that is killed at the timeout, or that the shell could not
\* start, is recorded as error_detected with the same record a non-zero exit
\* with the same streams gets, no answer is sent, and the next step of the
\* handler is the call of callHF for that attempt.
AsNonZeroExit(o) == [o EXCEPT !.killed = FALSE, !.code = 1]

C13_TimeoutDrivesRepair ==
    [][/\ (pc = "exec_wait" /\ pc' # "exec_wait" /\ execResult'.error # "") =>
             /\ pc' = "read"
             /\ response' = NoResponse
             /\ output' = Resolve(AsNonZeroExit(execResult'))
             /\ fixes' = Append(fixes, ErrorRecord(attempt,
                                        Resolve(AsNonZeroExit(execResult')).output))
             /\ attempt' = attempt
       /\ pc = "read" =>
             /\ pc' = "hf_wait"
             /\ hfCalls' = hfCalls + 1
             /\ attempt' = attempt]_vars

C13_Witness ==
    /\ pc = "hf_wait"
    /\ attempt = 2
    /\ execResult.killed
    /\ Last(fixes).action = "error_detected"
    /\ hfCalls = 2

\* C14 as claimed: a kill request whose pid has no record in runningProcesses
\* is answered success false and leaves runningProcesses as it was.
Registered(pid) ==
    \E e \in 1..Len(runningProcesses) : children[runningProcesses[e].value].pid = pid

Answered(k) == k \in 1..Len(kills) /\ kills[k].pending /\ ~kills'[k].pending

C14_KillUnregisteredFails ==
    [][\A k \in 1..MaxKills :
          Answered(k) /\ ~Registered(kills[k].pid) =>
              /\ ~kills'[k].res.success
              /\ runningProcesses' = runningProcesses]_vars

\* C15: when the kill callback answers success, runningProcesses holds no
\* record with the killed pid afterwards and every other record is where and
\* what it was.
Others(m, pid) == SelectSeq(m, LAMBDA e : children[e.value].pid # pid)

C15_KillRemovesRecord ==
    [][\A k \in 1..MaxKills :
          Answered(k) /\ kills'[k].res.success =>
              /\ \A e \in 1..Len(runningProcesses') :
                    children'[runningProcesses'[e].value].pid # kills[k].pid
              /\ runningProcesses' = Others(runningProcesses, kills[k].pid)
              /\ children' = children]_vars

C15_Witness ==
    /\ Len(kills) = 1
    /\ kills[1].res.status = 200
    /\ kills[1].res.success
    /\ kills[1].pid = 1
    /\ ~children[1].timer
    /\ children[1].exitEvent
    /\ Len(runningProcesses) = 1
    /\ runningProcesses[1].value = 2

\* C16: when taskkill fails the request is answered with status 200 and
\* { success: false, error }, nothing is thrown, and neither runningProcesses
\* nor previewServers changes.
C16_FailedKillIsAValue ==
    [][\A k \in 1..MaxKills :
          Answered(k) /\ ~kills[k].ok =>
              /\ kills'[k].res.status = 200
              /\ ~kills'[k].res.success
              /\ "error" \in DOMAIN kills'[k].res
              /\ runningProcesses' = runningProcesses
              /\ previewServers' = previewServers
              /\ crashed' = crashed]_vars

C16_Witness ==
    /\ Len(kills) = 1
    /\ kills[1].res.status = 200
    /\ ~kills[1].res.success
    /\ kills[1].pid = 1
    /\ ~children[1].alive
    /\ Registered(1)

\* C17: runningProcesses never holds two records under one key; when the timer
\* of a command with a pid fires, the record under its key is that command's,
\* replacing the record that was there; the key is the request's project, or
\* 'default' when the request names none.
UniqueKeys ==
    \A i, j \in 1..Len(runningProcesses) :
        runningProcesses[i].key = runningProcesses[j].key => i = j

TimerFires(i) == i \in 1..Len(children) /\ children[i].timer /\ ~children'[i].timer

C17_OneRecordPerKey ==
    /\ []UniqueKeys
    /\ [](\A e \in 1..Len(runningProcesses) :
             LET ch == children[runningProcesses[e].value]
             IN  runningProcesses[e].key = (IF ch.project = "" THEN "default" ELSE ch.project))
    /\ [][\A i \in 1..MaxRuns :
            TimerFires(i) /\ children[i].pid # 0 =>
                /\ MapGet(runningProcesses', children[i].key) = i
                /\ Len(runningProcesses') =
                      Len(runningProcesses) + (IF MapHas(runningProcesses, children[i].key)
                                               THEN 0 ELSE 1)]_vars

C17_Witness ==
    /\ Len(children) = 2
    /\ children[1].project = ""
    /\ children[2].project = ""
    /\ children[1].alive /\ children[2].alive
    /\ ~children[1].timer /\ ~children[2].timer
    /\ runningProcesses = <<[key |-> "default", value |-> 2]>>

\* C18 as claimed: once the exit of a background command has been observed
\* and its request has been answered, runningProcesses holds no record of that
\* command, so the list of GET /api/terminal/processes never names it.
ExitObserved(i) ==
    /\ children[i].kind = "server"
    /\ ~children[i].alive
    /\ ~children[i].exitEvent
    /\ children[i].res # NoResponse

C18_NoRecordAfterExit ==
    \A i \in 1..Len(children) :
        ExitObserved(i) =>
            /\ \A e \in 1..Len(runningProcesses) : runningProcesses[e].value # i
            /\ \A n \in 1..Len(listProcesses) :
                  listProcesses[n].pid # children[i].pid

\* C19: a regular command and a run of the auto-fix loop are given a timeout
\* (30000 and 15000) and their request goes on once exec has called back, which
\* happens when the command has ended or has been killed at the timeout; the
\* answer to a command killed at the timeout is the answer to the same command
\* exiting non-zero with the same streams; a long-running command is given no
\* timeout and is ended by its own exit or by a taskkill only.  A request also
\* ends, unanswered, when the server process itself is ended by an exception no
\* handler catches.
SyncPending(i) ==
    i \in 1..Len(children) /\ children[i].kind = "cli" /\ children[i].res = NoResponse

SyncAnswered(i) ==
    i \in 1..Len(children) /\ children[i].kind = "cli" /\ children[i].res # NoResponse

C19_SyncBoundedServerNot ==
    /\ \A i \in 1..MaxRuns : SyncPending(i) ~> (SyncAnswered(i) \/ crashed)
    /\ (pc = "exec_wait") ~> (pc # "exec_wait")
    /\ [](\A c \in inflight : c.op = "exec" => c.timeout = RunTimeout)
    /\ [](execResult.killed => output = Resolve(AsNonZeroExit(execResult)))
    /\ [](\A i \in 1..Len(children) :
            /\ children[i].kind = "cli" =>
                 /\ children[i].timeout = CliTimeout
                 /\ children[i].result.killed =>
                      /\ children[i].endedBy = "timeout"
                      /\ children[i].res = CliResponse(AsNonZeroExit(children[i].result))
            /\ children[i].kind = "server" =>
                 /\ children[i].timeout = 0
                 /\ children[i].endedBy \in {"", "exit", "kill"}
                 /\ (children[i].pid # 0 /\ ~children[i].alive) =>
                        children[i].endedBy \in {"exit", "kill"})

\* a regular command was killed at the timeout and answered as a failure, and a
\* long-running command started before it is still running
C19_Witness ==
    \E i, j \in 1..Len(children) :
        /\ children[i].kind = "server"
        /\ children[i].alive
        /\ children[i].res # NoResponse
        /\ i < j
        /\ children[j].kind = "cli"
        /\ children[j].result.killed
        /\ children[j].res = [status |-> 200, output |-> "Traceback", error |-> TRUE]

\* C20: when the timer of a long-running command fires and the child has a
\* pid, the child is stored under the key of the request's project and the
\* answer has background true and the url of the port the command ends in,
\* 8000 when it ends in none; when the child has no pid nothing is ever stored
\* for it and its answer is an error.
HttpServer8080 == <<"python", "SP", "-m", "SP", "http.server", "SP", "8080">>
NpxServe == <<"npx", "SP", "serve">>

C20_RegisteredAndAnswered ==
    /\ [](\A i \in 1..Len(children) :
            children[i].kind = "server" /\ ~children[i].timer =>
                IF children[i].pid # 0
                THEN /\ children[i].res.status = 200
                     /\ children[i].res.background
                     /\ children[i].command = HttpServer8080 =>
                            children[i].res.url = <<"http://localhost:", "8080">>
                     /\ children[i].command = NpxServe =>
                            children[i].res.url = <<"http://localhost:", "8000">>
                ELSE /\ children[i].res.error
                     /\ "background" \notin DOMAIN children[i].res
                     /\ \A e \in 1..Len(runningProcesses) : runningProcesses[e].value # i)
    /\ [][\A i \in 1..MaxRuns :
            TimerFires(i) /\ children[i].pid # 0 =>
                /\ MapHas(runningProcesses', KeyOf(children[i].project))
                /\ MapGet(runningProcesses', KeyOf(children[i].project)) = i]_vars

C20_Witness ==
    /\ Len(children) = 1
    /\ children[1].command = HttpServer8080
    /\ children[1].project = "p"
    /\ children[1].res.status = 200
    /\ "background" \in DOMAIN children[1].res
    /\ runningProcesses = <<[key |-> "p", value |-> 1]>>

(***************************************************************************)
(* Properties of the output of a synchronous command.                      *)
(***************************************************************************)
\* every (error, stdout, stderr) an exec callback can be called with
ExecResults ==
    [error : {"", "Command failed"}, killed : BOOLEAN, code : {0, 1},
     stdout : {"", "out"}, stderr : {"", "err"}]

\* stdout if present, else stderr, else the error's own message
StdoutFirst(o) ==
    IF o.stdout # "" THEN o.stdout ELSE IF o.stderr # "" THEN o.stderr ELSE o.error

\* a regular command the exec callback has answered
CliAnswered(i) == children[i].kind = "cli" /\ children[i].res # NoResponse

\* C21 as claimed: on the terminal path and on the auto-fix path the output
\* of a synchronous command is stdout if present, else stderr, else the
\* error's message, and a failed run carries an error flag on a normal answer.
C21_Original ==
    /\ output # NoOutput =>
          /\ output.output = StdoutFirst(execResult)
          /\ output.error = (execResult.error # "")
    /\ \A i \in 1..Len(children) :
          CliAnswered(i) =>
              /\ children[i].res.status = 200
              /\ children[i].res.output = StdoutFirst(children[i].result)
              /\ children[i].result.error # "" => children[i].res.error

\* C21 as amended: the auto-fix run resolves to stdout if present, else
\* stderr, else the error's message, with error set exactly when exec handed
\* over an error.  A regular command of the terminal that failed answers
\* stderr if present, else stdout, else the error's message, with error true;
\* one that succeeded answers stdout if present, else stderr, else the text
\* 'Command executed successfully', with no error field.  Both answers are
\* ordinary results (the promise resolves, the status is 200), whatever exec
\* hands over.
C21_SyncOutput ==
    /\ output # NoOutput =>
          /\ output.output = StdoutFirst(execResult)
          /\ output.error = (execResult.error # "")
          /\ output.success = (execResult.error = "")
    /\ pc = "read" => /\ output.error
                      /\ response = NoResponse
                      /\ Last(fixes) = ErrorRecord(attempt, output.output)
    /\ \A i \in 1..Len(children) :
          CliAnswered(i) =>
              LET o == children[i].result
                  r == children[i].res
              IN  /\ r.status = 200
                  /\ IF o.error # ""
                     THEN /\ r.error
                          /\ r.output = (IF o.stderr # "" THEN o.stderr
                                         ELSE IF o.stdout # "" THEN o.stdout ELSE o.error)
                     ELSE /\ "error" \notin DOMAIN r
                          /\ r.output = (IF o.stdout # "" THEN o.stdout
                                         ELSE IF o.stderr # "" THEN o.stderr
                                         ELSE "Command executed successfully")
    /\ \A o \in ExecResults :
          /\ Resolve(o).output = StdoutFirst(o)
          /\ Resolve(o).error = (o.error # "")
          /\ CliResponse(o).status = 200
          /\ o.error # "" =>
                /\ CliResponse(o).error
                /\ CliResponse(o).output =
                      (IF o.stderr # "" THEN o.stderr ELSE StdoutFirst(o))
          /\ o.error = "" =>
                /\ "error" \notin DOMAIN CliResponse(o)
                /\ CliResponse(o).output =
                      (IF StdoutFirst(o) # "" THEN StdoutFirst(o)
                       ELSE "Command executed successfully")

\* a regular command that failed with text on both streams has been answered
C21_Witness ==
    /\ Len(children) = 1
    /\ CliAnswered(1)
    /\ children[1].result.stdout = "Traceback"
    /\ children[1].result.stderr = "warning"
    /\ children[1].res.output = "warning"

(***************************************************************************)
(* Properties of the parser (the FILE: expression and the two loops that   *)
(* read its matches, lines 274-295 and 635-644).                           *)
(***************************************************************************)
\* the blocks a reply of BlockReplies was built from
BlocksOf(t) == CHOOSE bs \in BlockSeqs : BlockReply(bs) = t

\* one edit for every block, as a reader of the text takes them
AsWritten(bs) == [i \in 1..Len(bs) |-> [filepath |-> bs[i].filepath, content |-> bs[i].content]]

\* the edits of the blocks that have something between their fences
WithContent(bs) == SelectSeq(AsWritten(bs), LAMBDA e : e.content # <<>>)

\* the edits a chat answer carries
ResponseEdits(r) ==
    IF "action" \notin DOMAIN r THEN <<>>
    ELSE IF r.action = "write_file" THEN <<[filepath |-> r.filepath, content |-> r.content]>>
    ELSE IF r.action = "write_multiple_files" THEN r.files
    ELSE <<>>

\* the chat turn has answered a reply made of blocks
BlocksAnswered == cpc = "done" /\ chatResponse.status = 200 /\ chatAi \in BlockReplies

FilledBlocksPushed ==
    \A bs \in BlockSeqs :
        /\ MatchEdits(FileMatches(BlockReply(bs))) = AsWritten(bs)
        /\ PrimaryEdits(BlockReply(bs)) = WithContent(bs)
        /\ ValidEdits(BlockReply(bs)) = WithContent(bs)

ParsePrompts == {PromptHello, PromptCreate, PromptCreateGo, PromptFix}

\* callHF has returned and the handler has answered what it made of the text
Parsed == cpc = "done" /\ chatResponse.status = 200 /\ chatAi # <<>>

\* the answer is the starter template of lines 701-715, not an edit of the text
IsTemplate(r) ==
    /\ "action" \in DOMAIN r
    /\ r.action = "write_file"
    /\ r.content = generateFileTemplate(r.filepath)

\* the edits of the text an answer carries
ParsedEdits(r) == IF IsTemplate(r) THEN <<>> ELSE ResponseEdits(r)

\* the directive an answer shows: the edits, and with them the text made of
\* the explanation and the paths
Directive(r) ==
    [fileEdits |-> ParsedEdits(r),
     said |-> IF ParsedEdits(r) # <<>> THEN r.response ELSE <<>>]

C24_StrictGrammarOrder ==
    /\ cpc = "done" /\ chatAi # <<>> =>
          \/ chatResponse.status = 200
          \/ chatResponse = ChatErrorResponse("db error")
    /\ Parsed =>
          LET prim == PrimaryEdits(chatAi)
              alt == AltEdits(chatAi)
              verb == VerbEdits(chatAi)
              e == ParsedEdits(chatResponse)
          IN  /\ e \in {prim, alt, verb, <<>>}
              /\ prim # <<>> => e = prim
              /\ e # <<>> /\ e # prim => prim = <<>> /\ isFileOperation(chatReq.prompt)
              /\ e # <<>> /\ e # prim /\ e # alt => alt = <<>>
              /\ prim = <<>> /\ alt = <<>> /\ verb = <<>> => e = <<>>

\* a reply in which the bare-path and the verb expression both find a block
\* was answered with the edit of the bare-path expression alone
C24_Witness ==
    /\ Parsed
    /\ chatAi = ReplyBareAndVerb
    /\ VerbEdits(chatAi) # <<>>
    /\ "action" \in DOMAIN chatResponse
    /\ chatResponse.action = "write_file"
    /\ chatResponse.filepath = <<"app", ".py">>
    /\ chatResponse.content = <<"w">>

(***************************************************************************)
(* Properties of the writes of a directive.                                *)
(***************************************************************************)
\* the content of the last edit of es that names f
LastContent(es, f) ==
    LET S == {i \in 1..Len(es) : es[i].filepath = f}
    IN  es[CHOOSE i \in S : \A j \in S : j <= i].content

\* the loop of lines 284-295 is over and every db.writeFile of it returned
LoopPersisted ==
    /\ pc = "scan"
    /\ matchIdx > Len(Edits(aiResponse))
    /\ ValidEdits(aiResponse) # <<>>
    /\ Len(fixedFiles) = Len(ValidEdits(aiResponse))

\* API.chat has sent every file of the answer and every one was stored
PagePersisted ==
    /\ client.pc = "done"
    /\ ResponseEdits(chatResponse) # <<>>
    /\ Len(client.written) = Len(ResponseEdits(chatResponse))
    /\ \A i \in 1..Len(client.written) : client.written[i]

\* C25: once the edits of a directive are persisted, by the loop of the
\* auto-fix handler or by API.chat of the page, the content store holds for
\* every path of the directive the content of the last edit that names it.
C25_LastWriteWins ==
    /\ LoopPersisted =>
          \A i \in 1..Len(ValidEdits(aiResponse)) :
              LET f == ValidEdits(aiResponse)[i].filepath
              IN  f \in DOMAIN files /\ files[f] = LastContent(ValidEdits(aiResponse), f)
    /\ PagePersisted =>
          \A i \in 1..Len(ResponseEdits(chatResponse)) :
              LET f == ResponseEdits(chatResponse)[i].filepath
              IN  f \in DOMAIN files /\ files[f] = LastContent(ResponseEdits(chatResponse), f)

\* the page has stored an answer that names app.py twice, with two contents
C25_Witness ==
    /\ PagePersisted
    /\ Len(ResponseEdits(chatResponse)) = 2
    /\ ResponseEdits(chatResponse)[1] = [filepath |-> <<"app", ".py">>, content |-> <<"w">>]
    /\ ResponseEdits(chatResponse)[2] = [filepath |-> <<"app", ".py">>, content |-> <<"v">>]
    /\ files[<<"app", ".py">>] = <<"v">>

(***************************************************************************)
(* Properties of the chat handler's classification (lines 410-474).        *)
(***************************************************************************)
\* a prompt has been classified for a request that names a project
Classified == cpc # "idle" /\ chatReq.prompt # <<>> /\ chatReq.project # ""

\* the handler answered at once with the action a
AnsweredAt(a) ==
    /\ cpc = "done"
    /\ chatCalls = <<>>
    /\ "action" \in DOMAIN chatResponse
    /\ chatResponse.action = a

\* the handler went on to the provider: its first call is db.loadChatHistory
\* and its callHF, once made, carries isFileOperation of the prompt
WentToProvider ==
    /\ chatCalls # <<>>
    /\ chatCalls[1].fn = "loadChatHistory"
    /\ \A i \in 1..Len(chatCalls) :
          chatCalls[i].fn = "callHF" => chatCalls[i].fileOp = isFileOperation(chatReq.prompt)

\* the intents the handler has given the prompt
Intents ==
    {a \in {"delete_file", "read_file", "auto_fix"} : AnsweredAt(a)}
        \cup (IF chatCalls # <<>>
              THEN {IF isFileOperation(chatReq.prompt) THEN "file_edit" ELSE "question"}
              ELSE {})

\* what the prompts of ChatPrompts say, read by a person
Phrasings ==
    [p \in ChatPrompts \ {<<>>} |->
        CASE p = PromptHello      -> {}
          [] p = PromptCreate     -> {"file_edit"}
          [] p = PromptCreateGo   -> {"file_edit"}
          [] p = PromptDelete     -> {"delete_file"}
          [] p = PromptDeleteApp  -> {"delete_file"}
          [] p = PromptShow       -> {"read_file"}
          [] p = PromptFix        -> {"auto_fix", "file_edit"}
          [] p = PromptShowDelete -> {"read_file", "delete_file"}
          [] p = PromptFixDelete  -> {"auto_fix", "file_edit", "delete_file"}
          [] p = PromptFixShow    -> {"auto_fix", "file_edit", "read_file"}
          [] p = PromptCreateShow -> {"file_edit", "read_file"}
          [] p = PromptFixCreate  -> {"auto_fix", "file_edit"}]

\* the first of delete, read, auto-repair, file-edit that is among S, else
\* the general question
FirstIntent(S) ==
    IF "delete_file" \in S THEN "delete_file"
    ELSE IF "read_file" \in S THEN "read_file"
    ELSE IF "auto_fix" \in S THEN "auto_fix"
    ELSE IF "file_edit" \in S THEN "file_edit"
    ELSE "question"

\* C26: with a project, a prompt is given exactly one intent, the first in the
\* order delete, read, auto-repair, file-edit, general question whose
\* phrasing it matches: delete whenever the delete expression matches, read
\* whenever the read expression matches and the delete expression does not,
\* auto-repair whenever 'fix' and one of error/run/execute/test/console occur
\* and neither expression matches, and the provider in every other case.
C26_FirstMatchWins ==
    Classified =>
        /\ Intents = {FirstIntent(Phrasings[chatReq.prompt])}
        /\ deleteMatch(chatReq.prompt).ok =>
              AnsweredAt("delete_file")
                  /\ chatResponse.filepath = deleteMatch(chatReq.prompt).path
        /\ ~deleteMatch(chatReq.prompt).ok /\ readMatch(chatReq.prompt).ok =>
              AnsweredAt("read_file")
                  /\ chatResponse.filepath = readMatch(chatReq.prompt).path
        /\ (/\ ~deleteMatch(chatReq.prompt).ok
            /\ ~readMatch(chatReq.prompt).ok
            /\ isFixCommand(chatReq.prompt)) => AnsweredAt("auto_fix")
        /\ (/\ ~deleteMatch(chatReq.prompt).ok
            /\ ~readMatch(chatReq.prompt).ok
            /\ ~isFixCommand(chatReq.prompt)) => WentToProvider

\* a prompt with the read phrasing before the delete phrasing was classified
\* as a deletion
C26_Witness ==
    /\ Classified
    /\ chatReq.prompt = PromptShowDelete
    /\ AnsweredAt("delete_file")
    /\ chatResponse.filepath = <<"m", ".go">>

\* the request carries the instruction "delete the file foo.txt"
DeleteFooAsked == cpc # "idle" /\ chatReq.prompt = PromptDelete

\* the claim as stated: the instruction yields the delete intent whatever the
\* project of the request
C27_Original ==
    DeleteFooAsked => AnsweredAt("delete_file")

\* C27: the instruction "delete the file foo.txt" is answered at once, without
\* any call of the completion provider or of the content store: with a
\* project it yields the delete intent with path foo.txt, and without a
\* project it yields the advice to create or select a project, with no
\* intent at all (the instruction contains the word "file").
C27_DeleteFooWithProject ==
    DeleteFooAsked =>
        /\ cpc = "done"
        /\ chatCalls = <<>>
        /\ chatAi = <<>>
        /\ chatResponse.status = 200
        /\ chatReq.project # "" =>
              /\ AnsweredAt("delete_file")
              /\ chatResponse.filepath = <<"foo", ".txt">>
        /\ chatReq.project = "" =>
              /\ "action" \notin DOMAIN chatResponse
              /\ chatResponse.response = <<"Please create or select a project first">>

\* the instruction was answered with the delete intent for foo.txt
C27_Witness ==
    /\ DeleteFooAsked
    /\ chatReq.project # ""
    /\ AnsweredAt("delete_file")
    /\ chatResponse.filepath = <<"foo", ".txt">>
    /\ chatResponse.response = <<"Deleted", "foo", ".txt">>

(***************************************************************************)
(* Properties of the persistence of write and delete intents.              *)
(***************************************************************************)
\* the answer a carries a write or a delete intent
WriteOrDelete(a) ==
    /\ "action" \in DOMAIN a
    /\ a.action \in {"write_file", "write_multiple_files", "delete_file"}

\* the content store reflects the intent of the answer a
Durable(a) ==
    IF a.action = "delete_file"
    THEN deleteFile(files, a.filepath) = files
    ELSE \A i \in 1..Len(ResponseEdits(a)) :
             LET f == ResponseEdits(a)[i].filepath
             IN  f \in DOMAIN files /\ files[f] = LastContent(ResponseEdits(a), f)

\* the handler has returned a write or delete intent with its message
\* ("Deleted ...", "The files have been written to your project.")
HandlerDurable ==
    cpc = "done" /\ chatResponse.status = 200 /\ WriteOrDelete(chatResponse)
        => Durable(chatResponse)

\* API.chat of the page has returned its success (fileWritten, filesWritten
\* or fileDeleted) for the intent
PageDurable ==
    /\ client.pc = "done"
    /\ WriteOrDelete(chatResponse)
    /\ \E k \in {"fileWritten", "filesWritten", "fileDeleted"} : k \in DOMAIN client.result
    => Durable(chatResponse)

\* C28: whenever a write or delete intent is returned with its success
\* message, by the chat handler or by API.chat of the page that carries the
\* intent out, the content store already reflects the write or the deletion.
C28_SuccessImpliesDurable == HandlerDurable /\ PageDurable

(***************************************************************************)
(* Properties of the read intent (lines 432-441).                          *)
(***************************************************************************)
\* the handler has returned the read intent
ReadAnswered ==
    /\ cpc = "done"
    /\ "action" \in DOMAIN chatResponse
    /\ chatResponse.action = "read_file"

\* C29: the read intent is returned in the one step that classifies the
\* prompt, before any call of the content store (db.readFile,
\* db.getAllProjectFiles, db.loadChatHistory, db.saveChatHistory) and before
\* any call of the completion provider: the store and the chat history are as
\* they were, the answer names the path and carries no content, and the file
\* is read afterwards by the caller, through GET /api/file.
C29_ReadLeftToCaller ==
    /\ [](ReadAnswered =>
            /\ chatCalls = <<>>
            /\ chatAi = <<>>
            /\ chatCtx = NoContext
            /\ chatResponse.filepath = readMatch(chatReq.prompt).path
            /\ "content" \notin DOMAIN chatResponse)
    /\ [](cpc # "idle" /\ chatReq.prompt = PromptShow /\ chatReq.project # ""
            => ReadAnswered)
    /\ [][ReadAnswered' /\ ~ReadAnswered =>
            cpc = "idle" /\ UNCHANGED <<files, chatHistory, chatCalls, client>>]_vars
    /\ [][ReadAnswered => UNCHANGED <<files, handlerVars>>]_vars

\* the handler returned the read intent for app.py without a call, and the
\* page then read the file
C29_Witness ==
    /\ ReadAnswered
    /\ chatReq.prompt = PromptShow
    /\ chatResponse.filepath = <<"app", ".py">>
    /\ chatCalls = <<>>
    /\ client.pc = "done"
    /\ "fileRead" \in DOMAIN client.result

(***************************************************************************)
(* Properties of the outcomes of a chat turn (lines 421-458 and 671-719).  *)
(***************************************************************************)
\* the handler has answered the request with status 200
Handled == cpc = "done" /\ chatResponse.status = 200

\* the outcomes whose shape the answer a has
OutcomesOf(a) ==
    LET D == DOMAIN a \ {"status"}
        act == IF "action" \in DOMAIN a THEN a.action ELSE ""
    IN  {o \in {"ReadFile", "DeleteFile", "StartAutoRepair", "WriteFile",
                "WriteMultipleFiles", "PlainResponse"} :
            CASE o = "ReadFile" ->
                   D = {"response", "action", "filepath"} /\ act = "read_file"
              [] o = "DeleteFile" ->
                   D = {"response", "action", "filepath"} /\ act = "delete_file"
              [] o = "StartAutoRepair" ->
                   D = {"response", "action", "project"} /\ act = "auto_fix"
              [] o = "WriteFile" ->
                   D = {"response", "action", "filepath", "content"} /\ act = "write_file"
              [] o = "WriteMultipleFiles" ->
                   D = {"response", "action", "files"} /\ act = "write_multiple_files"
              [] o = "PlainResponse" -> D = {"response"}}

\* const files for the reply received, and the test of the template fallback
ExtractedEdits == ChatFiles(chatAi, isFileOperation(chatReq.prompt))

TemplateApplies == simpleCreateMatch(chatReq.prompt).ok /\ ~Includes(chatAi, "FENCE")

\* C30: a chat request answered with status 200 gets one answer, of exactly
\* one of the six outcomes.  Before the provider is called the outcome is the
\* read, the delete or the auto-repair intent, or a plain text.  Once the
\* provider's text is parsed, one edit gives WriteFile with the path and the
\* content of that edit, two or more give WriteMultipleFiles with all the
\* edits in their order, no edit with the template fallback gives WriteFile
\* with the template, and the provider's text is returned as it is exactly
\* when there is no edit and the fallback does not apply.
C30_ClosedOutcomes ==
    /\ [](Handled =>
            /\ Cardinality(OutcomesOf(chatResponse)) = 1
            /\ chatAi = <<>> =>
                  OutcomesOf(chatResponse) \subseteq
                      {"ReadFile", "DeleteFile", "StartAutoRepair", "PlainResponse"}
            /\ chatAi # <<>> =>
                  /\ Len(ExtractedEdits) = 1 =>
                        /\ OutcomesOf(chatResponse) = {"WriteFile"}
                        /\ chatResponse.filepath = ExtractedEdits[1].filepath
                        /\ chatResponse.content = ExtractedEdits[1].content
                  /\ Len(ExtractedEdits) >= 2 =>
                        /\ OutcomesOf(chatResponse) = {"WriteMultipleFiles"}
                        /\ chatResponse.files = ExtractedEdits
                  /\ ExtractedEdits = <<>> /\ TemplateApplies =>
                        /\ OutcomesOf(chatResponse) = {"WriteFile"}
                        /\ IsTemplate(chatResponse)
                  /\ ExtractedEdits = <<>> /\ ~TemplateApplies =>
                        /\ OutcomesOf(chatResponse) = {"PlainResponse"}
                        /\ chatResponse.response = chatAi
                  /\ OutcomesOf(chatResponse) = {"PlainResponse"} =>
                        ExtractedEdits = <<>> /\ ~TemplateApplies)
    /\ [][cpc = "done" => UNCHANGED <<cpc, chatResponse>>]_vars

\* a reply of two blocks was answered with WriteMultipleFiles carrying the
\* two edits in the order of the text
C30_Witness ==
    /\ Handled
    /\ chatAi = ReplyTwo
    /\ OutcomesOf(chatResponse) = {"WriteMultipleFiles"}
    /\ chatResponse.files = <<[filepath |-> <<"app", ".py">>, content |-> <<"w">>],
                              [filepath |-> <<"app", ".py">>, content |-> <<"v">>]>>

(***************************************************************************)
(* Properties of the history put into the prompt (lines 480-488).          *)
(***************************************************************************)
\* the history of the context callHF was called with, <<>> before the call
EmbeddedHistory ==
    LET S == {i \in 1..Len(chatCalls) : chatCalls[i].fn = "callHF"}
    IN  IF S = {} THEN <<>> ELSE chatCalls[CHOOSE i \in S : TRUE].context.history

\* callHF was called and the turn has not been saved yet: chat_history is as
\* db.loadChatHistory found it
Embedded == cpc \in {"hf_wait", "save_wait"}

\* C31: the prompt holds at most 5 turns of history, and they are the 5 most
\* recent rows of the project's chat_history (all of them when there are
\* fewer), in the order in which they were stored.
C31_LastFiveTurns ==
    /\ Len(EmbeddedHistory) <= 5
    /\ Len(chatCtx.history) <= 5
    /\ Embedded =>
          LET rows == IF chatReq.project = "" THEN <<>> ELSE chatHistory
              n == Len(EmbeddedHistory)
          IN  /\ n = (IF Len(rows) < 5 THEN Len(rows) ELSE 5)
              /\ \A i \in 1..n :
                    /\ EmbeddedHistory[i].user = rows[Len(rows) - n + i].user
                    /\ EmbeddedHistory[i].ai = Substring(rows[Len(rows) - n + i].ai, 500)

\* a project with six stored turns: the prompt holds the second to the sixth
C31_Witness ==
    /\ Embedded
    /\ Len(chatHistory) = 6
    /\ Len(EmbeddedHistory) = 5
    /\ EmbeddedHistory[1].ai = chatHistory[2].ai
    /\ EmbeddedHistory[5].ai = chatHistory[6].ai
    /\ chatHistory[1].ai # chatHistory[2].ai

(***************************************************************************)
(* Properties of the repair prompt (lines 233-247).                        *)
(***************************************************************************)
\* fixPrompt has been built
PromptBuilt == pc = "hf_wait"

\* C32: the repair prompt embeds at most 10 files, the first 10 of the
\* project's listing, and of each of them its first 3000 characters at most,
\* whatever the number and the size of the project's files.
C32_PromptIsCapped ==
    PromptBuilt =>
        /\ Len(fixPrompt.files) <= 10
        /\ Len(fixPrompt.files) = (IF Len(projectFiles) < 10 THEN Len(projectFiles) ELSE 10)
        /\ \A i \in 1..Len(fixPrompt.files) :
              /\ fixPrompt.files[i].name = projectFiles[i]
              /\ Len(fixPrompt.files[i].content) <= 3000
              /\ fixPrompt.files[i].content =
                    SubSeq(files[projectFiles[i]], 1, Len(fixPrompt.files[i].content))
              /\ Len(files[projectFiles[i]]) <= 3000 =>
                    fixPrompt.files[i].content = files[projectFiles[i]]

\* a project of BigFiles files of BigChars characters: the prompt embeds 10
\* files of 3000 characters
C32_Witness ==
    /\ PromptBuilt
    /\ Len(projectFiles) = BigFiles
    /\ \A i \in 1..BigFiles : Len(files[projectFiles[i]]) = BigChars
    /\ Len(fixPrompt.files) = 10
    /\ \A i \in 1..10 : Len(fixPrompt.files[i].content) = 3000

(***************************************************************************)
(* Properties of the preview servers (lines 1123-1195).                    *)
(***************************************************************************)
\* a request of POST /api/terminal/stop with a project has just been answered
StopAnswered ==
    /\ <<previewResponse, previewServers>>' # <<previewResponse, previewServers>>
    /\ previewResponse'.op = "stop"
    /\ previewResponse'.status = 200

\* C33: previewServers holds at most one record per project, whatever run,
\* kill, host and stop requests were made.  A stop request for a project
\* without a record answers success: false and changes neither map nor any
\* process; one for a project with a record removes that record and no
\* other.  POST /api/terminal/host registers nothing (the code that did is
\* commented out), so no record ever exists and every stop request is of
\* the first kind.
C33_OnePreviewPerProject ==
    /\ [](\A p \in TermProjects :
            Cardinality({i \in 1..Len(previewServers) : previewServers[i].key = p}) <= 1)
    /\ [](previewServers = <<>>)
    /\ [][StopAnswered =>
            IF HasPreview(previewServers, previewResponse'.project)
            THEN /\ previewResponse'.success
                 /\ previewServers' =
                       SelectSeq(previewServers,
                                 LAMBDA e : e.key # previewResponse'.project)
            ELSE /\ ~previewResponse'.success
                 /\ UNCHANGED <<previewServers, runningProcesses, children, kills,
                                crashed>>]_vars
    /\ [][previewResponse' # previewResponse /\ previewResponse'.op = "host" =>
            UNCHANGED previewServers]_vars

\* after a run request and a host request, a stop request for the project
\* was answered success: false and no record exists
C33_Witness ==
    /\ previewResponse.status = 200
    /\ previewResponse.op = "stop"
    /\ previewResponse.project = "p"
    /\ ~previewResponse.success
    /\ previewServers = <<>>
    /\ Len(children) >= 1
    /\ Len(runningProcesses) >= 1

(***************************************************************************)
(* Properties of concurrent writes of one file (database.js 178-188).      *)
(***************************************************************************)
\* the requests whose statement the database has run for the path f
WritersOf(f) == {i \in 1..MaxWriters : writeReqs[i].at > 0 /\ writeReqs[i].filepath = f}

\* the one of them whose statement ran last
LastWriter(f) == CHOOSE i \in WritersOf(f) : \A j \in WritersOf(f) : writeReqs[j].at <= writeReqs[i].at

\* C34: when requests that run concurrently write the same path, the table
\* holds one row for the path (at most one of the statements inserted a row,
\* and none when a row was there before) and the content of the row is that
\* of the request whose statement ran last, never a content no request
\* wrote.
C34_LastWriteWins ==
    \A f \in WritePaths \ {<<>>} :
        WritersOf(f) # {} =>
            /\ f \in DOMAIN files
            /\ files[f] = writeReqs[LastWriter(f)].content
            /\ Cardinality({i \in WritersOf(f) : writeReqs[i].effect = "insert"}) <= 1
            /\ \A i \in WritersOf(f) :
                  writeReqs[i].effect = "insert" =>
                      \A j \in WritersOf(f) : writeReqs[i].at <= writeReqs[j].at

\* two requests for app.py were in flight together, the statement of the one
\* that arrived second ran first, both were answered, and the row holds the
\* content of the first
C34_Witness ==
    /\ writeReqs[1].pc = "done" /\ writeReqs[2].pc = "done"
    /\ writeReqs[1].filepath = <<"app", ".py">>
    /\ writeReqs[2].filepath = <<"app", ".py">>
    /\ writeReqs[1].content = <<"v">>
    /\ writeReqs[2].content = <<"x">>
    /\ writeReqs[2].at = 1
    /\ writeReqs[1].at = 2
    /\ writeReqs[2].effect = "insert"
    /\ writeReqs[1].effect = "update"
    /\ files[<<"app", ".py">>] = <<"v">>

(***************************************************************************)
(* Properties of the two parses (lines 273-295 and 625-669).               *)
(***************************************************************************)
\* the while loop of the auto-fix handler is over
LoopParsed == pc = "scan" /\ matchIdx > Len(Edits(aiResponse))

\* C35: the auto-fix loop and the chat handler take the same edits out of the
\* same text when the chat prompt is a file operation: what the loop hands
\* to db.writeFile is what the chat handler would answer for its text, and
\* what the chat handler answers is what the loop would hand to db.writeFile.
C35_SameParser ==
    /\ LoopParsed => ValidEdits(aiResponse) = ChatFiles(aiResponse, TRUE)
    /\ Parsed /\ isFileOperation(chatReq.prompt) /\ ~IsTemplate(chatResponse) =>
          ResponseEdits(chatResponse) = ValidEdits(chatAi)

(***************************************************************************)
(* Properties of a chat turn with an image (lines 611-623).                *)
(***************************************************************************)
\* a turn with an image went past the intents and was answered, and reading
\* the history did not fail
ImageTurnAnswered ==
    /\ cpc = "done"
    /\ chatReq.image
    /\ chatCalls # <<>>
    /\ chatResponse # ChatErrorResponse("db error")

\* C36: a chat turn that carries an image and is not answered by the delete,
\* read or auto-repair intent calls callHF exactly once, and is answered
\* with status 200 when callHF returns.
C36_ImageCallsProvider ==
    ImageTurnAnswered =>
        /\ Cardinality({i \in 1..Len(chatCalls) : chatCalls[i].fn = "callHF"}) = 1
        /\ chatAi # <<>> => chatResponse.status = 200


\* C37 as claimed: while a background command is running, its record leaves
\* runningProcesses only when another command is registered under its key; the
\* exit of an earlier command of the same key leaves the record where it is, so
\* a running command that was registered and not replaced is in the map.
HasRecord(m, i) == \E e \in 1..Len(m) : m[e].value = i

StaysRunning(i) == i \in 1..Len(children) /\ children[i].alive /\ children'[i].alive

C37_OnlyOwnExitRemoves ==
    [][\A i \in 1..MaxRuns :
          StaysRunning(i) /\ HasRecord(runningProcesses, i) =>
              \/ HasRecord(runningProcesses', i)
              \/ MapHas(runningProcesses', children[i].key)]_vars


\* C38 as claimed: the request of a long-running command is answered once,
\* whatever the order of the error event, the exit event and the timer: when
\* the timer fires on a request the error handler has answered, it sends
\* nothing, the answer stays what it was and no exception leaves the callback.
C38_OneResponsePerRun ==
    [][\A i \in 1..MaxRuns :
          TimerFires(i) /\ children[i].res # NoResponse =>
              /\ children'[i].res = children[i].res
              /\ crashed' = crashed]_vars


\* C39: fixedFiles starts empty with each reply; a write that returns appends
\* its path and has stored its content; a write that throws appends nothing,
\* answers nothing and the scan goes on; the record made after the last match
\* is applied_fix with files = fixedFiles when some write returned, and
\* no_fix_found followed by the answer when none did, the edits of the reply
\* notwithstanding; every applied_fix record has a non-empty files and no other
\* record has a files field.
WriteSucceeds == pc = "write_wait" /\ pc' = "scan" /\ writeFails' = writeFails

WriteFailed == pc = "write_wait" /\ pc' = "scan" /\ writeFails' = writeFails + 1

Recorded == pc = "scan" /\ fixes' # fixes

FilesOnlyWhenApplied ==
    \A n \in 1..Len(fixes) :
        IF fixes[n].action = "applied_fix"
        THEN "files" \in DOMAIN fixes[n] /\ fixes[n].files # <<>>
        ELSE "files" \notin DOMAIN fixes[n]

C39_AppliedFilesAreWritten ==
    /\ []FilesOnlyWhenApplied
    /\ [][/\ (pc = "hf_wait" /\ pc' = "scan") => fixedFiles' = <<>>
          /\ WriteSucceeds =>
                LET e == Edits(aiResponse)[matchIdx]
                IN  /\ fixedFiles' = Append(fixedFiles, e.filepath)
                    /\ files'[e.filepath] = e.content
          /\ WriteFailed =>
                /\ fixedFiles' = fixedFiles
                /\ files' = files
                /\ fixes' = fixes
                /\ response' = response
          /\ Recorded =>
                IF fixedFiles # <<>>
                THEN /\ Last(fixes').action = "applied_fix"
                     /\ Last(fixes').files = fixedFiles
                     /\ pc' = "loop"
                ELSE /\ Last(fixes').action = "no_fix_found"
                     /\ pc' = "done"
                     /\ ~response'.success]_vars

\* the reply had an edit, its only write threw, and the execution ended with
\* no_fix_found
C39_Witness ==
    /\ Done
    /\ writeFails = 1
    /\ ValidEdits(aiResponse) # <<>>
    /\ fixedFiles = <<>>
    /\ Last(response.fixes).action = "no_fix_found"


\* C40: in every state the history is error_detected, applied_fix pairs for
\* attempts 1, 2, ... followed by nothing, by a success record, by an
\* error_detected record, or by an error_detected and a no_fix_found record of
\* the next attempt; a success or no_fix_found record is the last record; the
\* history has at most 10 records.
LongestHistory == 2 * maxAttempts

AttemptOf(i) == (i + 1) \div 2

HistoryShape(h) ==
    /\ Len(h) <= LongestHistory
    /\ \A i \in 1..Len(h) :
          /\ h[i].attempt = AttemptOf(i)
          /\ IF i < Len(h)
             THEN h[i].action = (IF i % 2 = 1 THEN "error_detected" ELSE "applied_fix")
             ELSE IF i % 2 = 1
             THEN h[i].action \in {"error_detected", "success"}
             ELSE h[i].action \in {"applied_fix", "no_fix_found"}

C40_HistoryShape == HistoryShape(fixes)

\* the longest history: five repaired attempts, none of which made the command run
C40_Witness ==
    /\ Done
    /\ Len(fixes) = LongestHistory
    /\ fixes[LongestHistory].action = "applied_fix"
    /\ fixes[LongestHistory].attempt = maxAttempts

====
